---------------------------- MODULE Spec2Model ----------------------------
(***************************************************************************)
(* Commanded-state reconstruction of kadi (src/kadi/cmds/states.py) and    *)
(* the command store query (src/kadi/commands/commands.py).                *)
(*                                                                         *)
(* Dates are modelled as integers (seconds): the date strings of the code  *)
(* are fixed-width and sort lexicographically as their times do, and       *)
(* DateTime(x).secs / DateTime(t).date convert between the two forms.      *)
(* State values are records [t, s, n]: t is the kind ("none" for Python's  *)
(* None, "str", "num", or "func" for a deferred closure dict).             *)
(***************************************************************************)
EXTENDS Integers, Sequences, FiniteSets, TLC

VARIABLES
    pc,           \* position of the running operation
    cmds,         \* fold: the CmdList given to get_states_for_cmds
    req,          \* the state_keys argument (a sequence; NoKeys is None)
    state0,       \* fold: the state0 argument (a function key -> value)
    order,        \* iteration order of the TRANSITION_CLASSES set
    state_keys,   \* fold: the processed state keys (column names)
    transitions,  \* fold / add_transition: the list of transitions
    idx,          \* fold / add_transition: current index into transitions
    states,       \* fold: list of state rows
    datestarts,   \* fold: list of start dates of the rows
    table,        \* fold: the returned interval table
    err,          \* error raised by the running operation ("" when none)
    warned,       \* fold: state0 keys a warning was issued for
    log,          \* observations of the operation (closure calls, queries)
    rin,          \* reducer: input table
    rkeys,        \* reducer: state_keys argument
    rout,         \* reducer: output of reduce_states(rin, rkeys)
    rout2,        \* reducer: output of reduce_states(rout, rkeys)
    newt,         \* add_transition: the transition to add
    spm,          \* SPM eclipse rule: [connect_time, connect_flag, td, wrote]
    s0,           \* get_state0: the state0 dict being filled in
    s0date,       \* get_state0: the date argument (stop)
    lookbacks,    \* get_state0: the lookbacks argument, in seconds
    queried,      \* get_state0: the lookbacks commands.filter was called with
    natts,        \* get_state0: number of attitudes the maneuver helper returns
    msg,          \* get_state0: the arguments of the error message
    idx_cmds,     \* command store: the table of commands (flat columns)
    pars_dict,    \* command store: parameter tuple -> idx, as a list of pairs
    query,        \* commands.filter: the arguments [start, stop, kwargs]
    found,        \* commands.filter: the returned commands
    events,       \* events database: the event rows, [name, start]
    foreign,      \* events database: the foreign rows of the events
    updates,      \* events database: the Update row of each model (0: none)
    fetched,      \* events updater: the last call [name, events, added]
    sunwin,       \* sun-vector samples of two windows
    registry,     \* [STATE_KEYS, TRANSITIONS, TRANSITION_CLASSES]
    declared      \* the transition classes created so far

vars == <<pc, cmds, req, state0, order, state_keys, transitions, idx, states,
          datestarts, table, err, warned, log, rin, rkeys, rout, rout2, newt,
          spm, s0, s0date, lookbacks, queried, natts, msg, idx_cmds,
          pars_dict, query, found, events, foreign, updates, fetched, sunwin,
          registry, declared>>

-----------------------------------------------------------------------------
(* Values *)

NoneV == [t |-> "none", s |-> "", n |-> 0]
Str(x) == [t |-> "str", s |-> x, n |-> 0]
Num(i) == [t |-> "num", s |-> "", n |-> i]
\* {'func': <cls>.add_transitions, 'cmd': cmd}; the closures read cmd['date'] only
Func(f, date) == [t |-> "func", s |-> f, n |-> date]

\* isinstance(value, dict)
IsDict(v) == v.t = "func"

Range(seq) == {seq[i] : i \in 1..Len(seq)}

\* F(v) with v evaluated once, before F is applied.  (TLC evaluates the
\* arguments and LET definitions of an operator each time they are used; the
\* loops below bind the value of an iteration this way before the next one.)
Let(F(_), v) == CHOOSE y \in {F(x) : x \in {v}} : TRUE

\* the members of the set of integers S in increasing order
Ascending(S) ==
    Let(LAMBDA T : [k \in 1..Cardinality(T) |->
                       CHOOSE x \in T : Cardinality({y \in T : y <= x}) = k],
        S)

\* _unique(seq): the first occurrence of each element, in order
_unique(seq) ==
    Let(LAMBDA sq :
            Let(LAMBDA at : [k \in 1..Len(at) |-> sq[at[k]]],
                Ascending({i \in 1..Len(sq) :
                              \A j \in 1..(i - 1) : sq[j] # sq[i]})),
        seq)

RECURSIVE Concat(_)
Concat(seqs) == IF seqs = <<>> THEN <<>> ELSE Head(seqs) \o Concat(Tail(seqs))


-----------------------------------------------------------------------------
(* Registry: TransitionMeta.__new__ run over the rule classes of the module *)

QUAT_COMPS == <<"q1", "q2", "q3", "q4">>

TARG_COMPS == <<"targ_q1", "targ_q2", "targ_q3", "targ_q4">>

PCAD_STATE_KEYS ==
    QUAT_COMPS \o TARG_COMPS \o <<"ra", "dec", "roll">>
    \o <<"auto_npnt", "pcad_mode", "pitch", "off_nom_roll">>

DITHER_PARAM_KEYS ==
    <<"dither_phase_pitch", "dither_phase_yaw", "dither_ampl_pitch",
      "dither_ampl_yaw", "dither_period_pitch", "dither_period_yaw">>

ACIS_STATE_KEYS ==
    <<"clocking", "power_cmd", "vid_board", "fep_count", "si_mode", "ccd_count">>

\* One record per registered class.  base: the class whose set_transitions
\* runs; type / tlmsid: command_attributes ("" when the attribute is not
\* filtered on); par / parval: command_params; key / val: transition_key and
\* transition_val; pkey: transition_param_key.
Rule(name, base, type, tlmsid, par, parval, keys, key, val, pkey) ==
    [name |-> name, base |-> base, type |-> type, tlmsid |-> tlmsid,
     par |-> par, parval |-> parval, state_keys |-> keys, key |-> key,
     val |-> val, pkey |-> pkey]

Fixed(name, tlmsid, keys, key, val) ==
    Rule(name, "SingleFixed", "COMMAND_SW", tlmsid, "", 0, keys, key, val, "")

\* The classes in the order their class statements run (registration order).
RuleClasses == <<
    Fixed("HETG_INSR_Transition", "4OHETGIN", <<"hetg">>, "hetg", "INSR"),
    Fixed("HETG_RETR_Transition", "4OHETGRE", <<"hetg">>, "hetg", "RETR"),
    Fixed("LETG_INSR_Transition", "4OLETGIN", <<"letg">>, "letg", "INSR"),
    Fixed("LETG_RETR_Transition", "4OLETGRE", <<"letg">>, "letg", "RETR"),
    Rule("SimTscTransition", "Param", "SIMTRANS", "", "", 0,
         <<"simpos">>, "simpos", "", "pos"),
    Rule("SimFocusTransition", "Param", "SIMFOCUS", "", "", 0,
         <<"simfa_pos">>, "simfa_pos", "", "pos"),
    Rule("ObsidTransition", "Param", "MP_OBSID", "", "", 0,
         <<"obsid">>, "obsid", "", "id"),
    Rule("SPMEnableTransition", "SingleFixed", "COMMAND_SW", "AOFUNCEN",
         "aopcadse", 30, <<"sun_pos_mon">>, "sun_pos_mon", "ENAB", ""),
    Rule("SPMDisableTransition", "SingleFixed", "COMMAND_SW", "AOFUNCDS",
         "aopcadsd", 30, <<"sun_pos_mon">>, "sun_pos_mon", "DISA", ""),
    Rule("SPMEclipseEnableTransition", "SPMEclipse", "", "", "", 0,
         <<"sun_pos_mon">>, "", "", ""),
    Fixed("DitherEnableTransition", "AOENDITH", <<"dither">>, "dither", "ENAB"),
    Fixed("DitherDisableTransition", "AODSDITH", <<"dither">>, "dither", "DISA"),
    Rule("DitherParamsTransition", "DitherParams", "MP_DITHER", "AODITPAR",
         "", 0, DITHER_PARAM_KEYS, "", "", ""),
    Fixed("NMM_Transition", "AONMMODE", PCAD_STATE_KEYS, "pcad_mode", "NMAN"),
    Fixed("NPM_Transition", "AONPMODE", PCAD_STATE_KEYS, "pcad_mode", "NPNT"),
    Fixed("AutoNPMEnableTransition", "AONM2NPE", PCAD_STATE_KEYS,
          "auto_npnt", "ENAB"),
    Fixed("AutoNPMDisableTransition", "AONM2NPD", PCAD_STATE_KEYS,
          "auto_npnt", "DISA"),
    Rule("TargQuatTransition", "TargQuat", "MP_TARGQUAT", "", "", 0,
         PCAD_STATE_KEYS, "", "", ""),
    Rule("ManeuverTransition", "Maneuver", "COMMAND_SW", "AOMANUVR", "", 0,
         PCAD_STATE_KEYS, "", "", ""),
    Rule("NormalSunTransition", "Maneuver", "COMMAND_SW", "AONSMSAF", "", 0,
         PCAD_STATE_KEYS, "", "", ""),
    Rule("ACISTransition", "ACIS", "ACISPKT", "", "", 0,
         ACIS_STATE_KEYS, "", "", "") >>

\* STATE_KEYS after registration: each state key once, in first-seen order.
RECURSIVE RegisterKeys(_, _)
RegisterKeys(rules, acc) ==
    IF rules = <<>> THEN acc
    ELSE Let(LAMBDA acc1 : RegisterKeys(Tail(rules), acc1),
             _unique(acc \o Head(rules).state_keys))

STATE_KEYS == RegisterKeys(RuleClasses, <<>>)

\* TRANSITIONS[state_key]: the classes declaring state_key, as indices into
\* RuleClasses.
TRANSITIONS(state_key) ==
    {i \in 1..Len(RuleClasses) : state_key \in Range(RuleClasses[i].state_keys)}

TRANSITION_CLASSES == 1..Len(RuleClasses)

-----------------------------------------------------------------------------
(* Commands and the per-date transitions dict *)

\* A command row: the flat columns the rules read plus the parameters they
\* look up (id, pos, aopcadse, aopcadsd); q stands for the columns q1..q4.
Cmd(date, type, tlmsid) ==
    [date |-> date, type |-> type, tlmsid |-> tlmsid, event_type |-> "",
     id |-> 0, pos |-> 0, q |-> 0, aopcadse |-> 0, aopcadsd |-> 0]

\* cmd[attr] for the attributes command_params and transition_param_key name
CmdAttr(cmd, attr) ==
    CASE attr = "id" -> cmd.id
      [] attr = "pos" -> cmd.pos
      [] attr = "aopcadse" -> cmd.aopcadse
      [] attr = "aopcadsd" -> cmd.aopcadsd
      [] OTHER -> 0

\* d[k] = v on a Python dict kept as a sequence of items in insertion order:
\* an existing key keeps its place, a new key goes last.
DictSet(items, k, v) ==
    IF \E i \in 1..Len(items) : items[i].k = k
    THEN [i \in 1..Len(items) |->
             IF items[i].k = k THEN [k |-> k, v |-> v] ELSE items[i]]
    ELSE Append(items, [k |-> k, v |-> v])

\* d.update(pairs)
RECURSIVE DictUpdate(_, _)
DictUpdate(items, pairs) ==
    IF pairs = <<>> THEN items
    ELSE Let(LAMBDA items1 : DictUpdate(items1, Tail(pairs)),
             DictSet(items, Head(pairs).k, Head(pairs).v))

\* transitions_dict[date][k] = v on the defaultdict(dict)
TdSet(td, date, k, v) ==
    IF date \in DOMAIN td
    THEN [td EXCEPT ![date] = DictSet(@, k, v)]
    ELSE td @@ (date :> <<[k |-> k, v |-> v]>>)

\* transitions_dict[date].update(pairs)
TdUpdate(td, date, pairs) ==
    IF date \in DOMAIN td
    THEN [td EXCEPT ![date] = DictUpdate(@, pairs)]
    ELSE td @@ (date :> DictUpdate(<<>>, pairs))

EmptyTd == [d \in {} |-> <<>>]

-----------------------------------------------------------------------------
(* Transition rules *)

\* every command taken as a state changing command of the class
get_state_changing_commands_all(cls, cs) == cs

\* BaseTransition.get_state_changing_commands
get_state_changing_commands(cls, cs) ==
    LET byattr(c) == /\ (cls.type # "" => c.type = cls.type)
                     /\ (cls.tlmsid # "" => c.tlmsid = cls.tlmsid)
        out_cmds == SelectSeq(cs, byattr)
        bypar(c) == cls.par # "" => CmdAttr(c, cls.par) = cls.parval
    IN SelectSeq(out_cmds, bypar)

\* SingleFixedTransition.set_transitions
RECURSIVE SingleFixed_set_transitions(_, _, _)
SingleFixed_set_transitions(cls, td, state_cmds) ==
    IF state_cmds = <<>> THEN td
    ELSE Let(LAMBDA td1 : SingleFixed_set_transitions(cls, td1, Tail(state_cmds)),
             TdSet(td, Head(state_cmds).date, cls.key, Str(cls.val)))

\* ParamTransition.set_transitions
RECURSIVE Param_set_transitions(_, _, _)
Param_set_transitions(cls, td, state_cmds) ==
    IF state_cmds = <<>> THEN td
    ELSE Let(LAMBDA td1 : Param_set_transitions(cls, td1, Tail(state_cmds)),
             TdSet(td, Head(state_cmds).date, cls.key,
                   Num(CmdAttr(Head(state_cmds), cls.pkey))))

\* 11 * 60 seconds, the delay of the SCS-33 enable after eclipse exit
SPM_DELAY == 660

\* battery connect must precede eclipse entry by less than this (seconds)
SPM_CONNECT_LIMIT == 125

\* the iteration with the flag left set after an exit has used it
SPMEclipse_step_keep(st, cmd) ==
    IF cmd.tlmsid = "EOESTECN"
    THEN [st EXCEPT !.connect_time = cmd.date, !.wrote = FALSE]
    ELSE IF cmd.type = "ORBPOINT" /\ cmd.event_type \in {"PENTRY", "LSPENTRY"}
    THEN [st EXCEPT
            !.connect_flag = (cmd.date - st.connect_time < SPM_CONNECT_LIMIT),
            !.wrote = FALSE]
    ELSE IF /\ cmd.type = "ORBPOINT"
            /\ cmd.event_type \in {"PEXIT", "LSPEXIT"}
            /\ st.connect_flag
    THEN [st EXCEPT
            !.td = TdSet(st.td, cmd.date + SPM_DELAY, "sun_pos_mon", Str("ENAB")),
            !.wrote = TRUE]
    ELSE [st EXCEPT !.wrote = FALSE]

\* One iteration of the loop of SPMEclipseEnableTransition.set_transitions over
\* the preselected commands; st = [connect_time, connect_flag, td, wrote].
\* wrote tells whether this iteration assigned into transitions_dict.
SPMEclipse_step(st, cmd) ==
    IF cmd.tlmsid = "EOESTECN"
    THEN [st EXCEPT !.connect_time = cmd.date, !.wrote = FALSE]
    ELSE IF cmd.type = "ORBPOINT"
    THEN IF cmd.event_type \in {"PENTRY", "LSPENTRY"}
         THEN [st EXCEPT
                 !.connect_flag = (cmd.date - st.connect_time < SPM_CONNECT_LIMIT),
                 !.wrote = FALSE]
         ELSE IF cmd.event_type \in {"PEXIT", "LSPEXIT"} /\ st.connect_flag
         THEN [st EXCEPT
                 !.td = TdSet(st.td, cmd.date + SPM_DELAY, "sun_pos_mon",
                              Str("ENAB")),
                 !.connect_flag = FALSE,
                 !.wrote = TRUE]
         ELSE [st EXCEPT !.wrote = FALSE]
    ELSE [st EXCEPT !.wrote = FALSE]

\* the preselection  ok = (tlmsid == 'EOESTECN') | (type == 'ORBPOINT')
SPMEclipse_select(cs) ==
    SelectSeq(cs, LAMBDA c : c.tlmsid = "EOESTECN" \/ c.type = "ORBPOINT")

SPMEclipse_init(td) ==
    [connect_time |-> 0, connect_flag |-> FALSE, td |-> td, wrote |-> FALSE]

RECURSIVE SPMEclipse_loop(_, _)
SPMEclipse_loop(st, cs) ==
    IF cs = <<>> THEN st
    ELSE Let(LAMBDA st1 : SPMEclipse_loop(st1, Tail(cs)),
             SPMEclipse_step(st, Head(cs)))

\* SPMEclipseEnableTransition.set_transitions
SPMEclipse_set_transitions(td, cs) ==
    SPMEclipse_loop(SPMEclipse_init(td), SPMEclipse_select(cs)).td

\* DitherParamsTransition.set_transitions: the six values are conversions of
\* the command's angp .. ratey columns, kept here as one opaque number each.
RECURSIVE DitherParams_set_transitions(_, _)
DitherParams_set_transitions(td, state_cmds) ==
    IF state_cmds = <<>> THEN td
    ELSE Let(LAMBDA td1 : DitherParams_set_transitions(td1, Tail(state_cmds)),
             TdUpdate(td, Head(state_cmds).date,
                      [i \in 1..Len(DITHER_PARAM_KEYS) |->
                          [k |-> DITHER_PARAM_KEYS[i], v |-> Num(i)]]))

\* TargQuatTransition.set_transitions
RECURSIVE TargQuat_set_transitions(_, _)
TargQuat_set_transitions(td, state_cmds) ==
    IF state_cmds = <<>> THEN td
    ELSE Let(LAMBDA td1 : TargQuat_set_transitions(td1, Tail(state_cmds)),
             TdUpdate(td, Head(state_cmds).date,
                      [i \in 1..4 |->
                          [k |-> TARG_COMPS[i], v |-> Num(Head(state_cmds).q)]]))

\* ManeuverTransition.set_transitions (inherited by NormalSunTransition):
\* the closure {'func': cls.add_transitions, 'cmd': cmd} under key 'maneuver'
RECURSIVE Maneuver_set_transitions(_, _, _)
Maneuver_set_transitions(cls, td, state_cmds) ==
    IF state_cmds = <<>> THEN td
    ELSE Let(LAMBDA td1 : Maneuver_set_transitions(cls, td1, Tail(state_cmds)),
             TdSet(td, Head(state_cmds).date, "maneuver",
                   Func(cls.name, Head(state_cmds).date)))

\* The characters of the strings the ACIS rule takes apart or builds (TLA+
\* strings are atoms, so startswith, slicing and + work on these sequences).
Chars(str) ==
    CASE str = "WSPOW00000" -> <<"W","S","P","O","W","0","0","0","0","0">>
      [] str = "WSPOW0CF3F" -> <<"W","S","P","O","W","0","C","F","3","F">>
      [] str = "XCZ0000005" -> <<"X","C","Z","0","0","0","0","0","0","5">>
      [] str = "XTZ0000005" -> <<"X","T","Z","0","0","0","0","0","0","5">>
      [] str = "WSVIDALLDN" -> <<"W","S","V","I","D","A","L","L","D","N">>
      [] str = "AA00000000" -> <<"A","A","0","0","0","0","0","0","0","0">>
      [] str = "WSFEPALLUP" -> <<"W","S","F","E","P","A","L","L","U","P">>
      [] str = "WC00237014" -> <<"W","C","0","0","2","3","7","0","1","4">>
      [] str = "WT00C62A" -> <<"W","T","0","0","C","6","2","A">>
      [] str = "RS_0000001" -> <<"R","S","_","0","0","0","0","0","0","1">>
      [] str = "WSPOW" -> <<"W","S","P","O","W">>
      [] str = "WC" -> <<"W","C">>
      [] str = "WT" -> <<"W","T">>
      [] str = "CC_" -> <<"C","C","_">>
      [] str = "TE_" -> <<"T","E","_">>
      [] str = "CC_00237" -> <<"C","C","_","0","0","2","3","7">>
      [] str = "TE_00C62" -> <<"T","E","_","0","0","C","6","2">>
      [] OTHER -> <<>>

ACIS_TLMSIDS ==
    {"WSPOW00000", "WSPOW0CF3F", "XCZ0000005", "XTZ0000005", "WSVIDALLDN",
     "AA00000000", "WSFEPALLUP", "WC00237014", "WT00C62A", "RS_0000001"}

SI_MODES == {"CC_00237", "TE_00C62"}

\* str.startswith(prefix)
startswith(str, prefix) ==
    LET a == Chars(str)
        b == Chars(prefix)
    IN Len(b) <= Len(a) /\ SubSeq(a, 1, Len(b)) = b

\* prefix + tlmsid[2:7], as the string with those characters
SiMode(prefix, tlmsid) ==
    LET a == Chars(tlmsid)
        cs == Chars(prefix) \o SubSeq(a, 3, IF Len(a) < 7 THEN Len(a) ELSE 7)
    IN IF \E m \in SI_MODES : Chars(m) = cs
       THEN CHOOSE m \in SI_MODES : Chars(m) = cs
       ELSE "?"

\* Chandra.cmd_states.decode_power(tlmsid): the four counts are bit counts of
\* the hexadecimal digits of the tlmsid; kept as a table for the tlmsids used.
decode_power(tlmsid) ==
    IF tlmsid = "WSPOW0CF3F"
    THEN [fep_count |-> 6, ccd_count |-> 6, vid_board |-> 1, clocking |-> 0]
    ELSE [fep_count |-> 0, ccd_count |-> 0, vid_board |-> 0, clocking |-> 0]

KV(k, v) == [k |-> k, v |-> v]

\* the chain with power_cmd written by the first two cases only
ACIS_updates_listed(tlmsid) ==
    IF startswith(tlmsid, "WSPOW")
    THEN LET pwr == decode_power(tlmsid)
         IN <<KV("fep_count", Num(pwr.fep_count)),
              KV("ccd_count", Num(pwr.ccd_count)),
              KV("vid_board", Num(pwr.vid_board)),
              KV("clocking", Num(pwr.clocking)),
              KV("power_cmd", Str(tlmsid))>>
    ELSE IF tlmsid \in {"XCZ0000005", "XTZ0000005"}
    THEN <<KV("clocking", Num(1)), KV("power_cmd", Str(tlmsid))>>
    ELSE IF tlmsid = "WSVIDALLDN" THEN <<KV("vid_board", Num(0))>>
    ELSE IF tlmsid = "AA00000000" THEN <<KV("clocking", Num(0))>>
    ELSE IF tlmsid = "WSFEPALLUP" THEN <<KV("fep_count", Num(6))>>
    ELSE IF startswith(tlmsid, "WC")
    THEN <<KV("si_mode", Str(SiMode("CC_", tlmsid)))>>
    ELSE IF startswith(tlmsid, "WT")
    THEN <<KV("si_mode", Str(SiMode("TE_", tlmsid)))>>
    ELSE <<>>

\* The if / elif chain of ACISTransition.set_transitions for one command: the
\* items it passes to transitions[date].update (none when no case applies).
ACIS_updates(tlmsid) ==
    IF startswith(tlmsid, "WSPOW")
    THEN LET pwr == decode_power(tlmsid)
         IN <<KV("fep_count", Num(pwr.fep_count)),
              KV("ccd_count", Num(pwr.ccd_count)),
              KV("vid_board", Num(pwr.vid_board)),
              KV("clocking", Num(pwr.clocking)),
              KV("power_cmd", Str(tlmsid))>>
    ELSE IF tlmsid \in {"XCZ0000005", "XTZ0000005"}
    THEN <<KV("clocking", Num(1)), KV("power_cmd", Str(tlmsid))>>
    ELSE IF tlmsid = "WSVIDALLDN"
    THEN <<KV("vid_board", Num(0)), KV("power_cmd", Str(tlmsid))>>
    ELSE IF tlmsid = "AA00000000"
    THEN <<KV("clocking", Num(0)), KV("power_cmd", Str(tlmsid))>>
    ELSE IF tlmsid = "WSFEPALLUP"
    THEN <<KV("fep_count", Num(6)), KV("power_cmd", Str(tlmsid))>>
    ELSE IF startswith(tlmsid, "WC")
    THEN <<KV("si_mode", Str(SiMode("CC_", tlmsid)))>>
    ELSE IF startswith(tlmsid, "WT")
    THEN <<KV("si_mode", Str(SiMode("TE_", tlmsid)))>>
    ELSE <<>>

\* ACISTransition.set_transitions
RECURSIVE ACIS_set_transitions(_, _)
ACIS_set_transitions(td, state_cmds) ==
    IF state_cmds = <<>> THEN td
    ELSE Let(LAMBDA td1 : ACIS_set_transitions(td1, Tail(state_cmds)),
             LET ups == ACIS_updates(Head(state_cmds).tlmsid)
             IN IF ups = <<>> THEN td
                ELSE TdUpdate(td, Head(state_cmds).date, ups))

\* cls.set_transitions(transitions_dict, cmds)
set_transitions(cls, td, cs) ==
    Let(LAMBDA state_cmds :
            CASE cls.base = "SingleFixed" ->
                     SingleFixed_set_transitions(cls, td, state_cmds)
              [] cls.base = "Param" -> Param_set_transitions(cls, td, state_cmds)
              [] cls.base = "SPMEclipse" -> SPMEclipse_set_transitions(td, cs)
              [] cls.base = "DitherParams" ->
                     DitherParams_set_transitions(td, state_cmds)
              [] cls.base = "TargQuat" -> TargQuat_set_transitions(td, state_cmds)
              [] cls.base = "Maneuver" ->
                     Maneuver_set_transitions(cls, td, state_cmds)
              [] cls.base = "ACIS" -> ACIS_set_transitions(td, state_cmds),
        get_state_changing_commands(cls, cs))

-----------------------------------------------------------------------------
(* Transition list *)

\* The state_keys argument None
NoKeys == <<"None">>

\* The two iteration orders of the TRANSITION_CLASSES set that are modelled:
\* a set's order is fixed within a process but not by the language.
RegistrationOrder == [i \in 1..Len(RuleClasses) |-> i]

ClassOrders ==
    {RegistrationOrder,
     [i \in 1..Len(RuleClasses) |-> Len(RuleClasses) + 1 - i]}

\* get_transition_classes(state_keys), iterated in the set's order ord
get_transition_classes(keys, ord) ==
    Let(LAMBDA trans_classes : SelectSeq(ord, LAMBDA c : c \in trans_classes),
        IF keys = NoKeys
        THEN {c \in TRANSITION_CLASSES : RuleClasses[c].state_keys # <<>>}
        ELSE UNION {TRANSITIONS(k) : k \in Range(keys)})

\* sorted(transitions_dict)
SortedDates(S) == Ascending(S)

RECURSIVE ApplyRules(_, _, _)
ApplyRules(classes, td, cs) ==
    IF classes = <<>> THEN td
    ELSE Let(LAMBDA td1 : ApplyRules(Tail(classes), td1, cs),
             set_transitions(RuleClasses[Head(classes)], td, cs))

\* get_transitions_list(cmds, state_keys): a transition is [date, items]
get_transitions_list(cs, keys, ord) ==
    Let(LAMBDA transitions_dict :
            Let(LAMBDA dates :
                    [i \in 1..Len(dates) |->
                        [date |-> dates[i], items |-> transitions_dict[dates[i]]]],
                SortedDates(DOMAIN transitions_dict)),
        ApplyRules(get_transition_classes(keys, ord), EmptyTd, cs))

\* sample_time of add_sun_vector_transitions (seconds)
SAMPLE_TIME == 10000

\* np.arange(start, stop, step)
RECURSIVE arange(_, _, _)
arange(start, stop, step) ==
    IF start >= stop THEN <<>>
    ELSE <<start>> \o arange(start + step, stop, step)

\* the list left in the order it has
SortByDate_unsorted(list) == list

\* list.sort(key=date): stable, so equal dates keep their list order
RECURSIVE SortByDate(_)
SortByDate(list) ==
    IF list = <<>> THEN <<>>
    ELSE Let(LAMBDA r :
                 LET x == list[Len(list)]
                     k == Cardinality({i \in 1..Len(r) : r[i].date <= x.date})
                 IN SubSeq(r, 1, k) \o <<x>> \o SubSeq(r, k + 1, Len(r)),
             SortByDate(SubSeq(list, 1, Len(list) - 1)))

\* sample times counted from the start date itself
sun_vector_times_unaligned(start, stop) == arange(start, stop, SAMPLE_TIME)

\* the sample times of add_sun_vector_transitions(start, stop, ...)
sun_vector_times(start, stop) ==
    arange((start \div SAMPLE_TIME) * SAMPLE_TIME, stop, SAMPLE_TIME)

\* add_sun_vector_transitions(start, stop, transitions)
add_sun_vector_transitions(start, stop, list) ==
    Let(LAMBDA times :
            SortByDate(
                list \o
                [i \in 1..Len(times) |->
                    [date |-> times[i],
                     items |-> <<KV("update_pitch",
                                    Func("update_sun_vector_state", 0))>>]]),
        sun_vector_times(start, stop))

\* add_transition without the test against the current date
add_transition_unchecked(list, i, transition) ==
    LET later == {ii \in (i + 1)..Len(list) : transition.date < list[ii].date}
    IN IF later # {}
       THEN LET ii == CHOOSE x \in later : \A y \in later : x <= y
            IN [err |-> "",
                list |-> SubSeq(list, 1, ii - 1) \o <<transition>>
                         \o SubSeq(list, ii, Len(list)),
                pos |-> ii]
       ELSE [err |-> "", list |-> Append(list, transition), pos |-> Len(list) + 1]

\* add_transition putting the transition before the entries of its own date
add_transition_first(list, i, transition) ==
    IF transition.date < list[i].date
    THEN [err |-> "ValueError", list |-> list, pos |-> 0]
    ELSE LET later == {ii \in (i + 1)..Len(list) : transition.date <= list[ii].date}
         IN IF later # {}
            THEN LET ii == CHOOSE x \in later : \A y \in later : x <= y
                 IN [err |-> "",
                     list |-> SubSeq(list, 1, ii - 1) \o <<transition>>
                              \o SubSeq(list, ii, Len(list)),
                     pos |-> ii]
            ELSE [err |-> "", list |-> Append(list, transition),
                  pos |-> Len(list) + 1]

\* add_transition rejecting a transition dated at the current one as well
add_transition_le(list, i, transition) ==
    IF transition.date <= list[i].date
    THEN [err |-> "ValueError", list |-> list, pos |-> 0]
    ELSE [err |-> "", list |-> Append(list, transition), pos |-> Len(list) + 1]

\* add_transition putting the transition right after the current one
add_transition_next(list, i, transition) ==
    IF transition.date < list[i].date
    THEN [err |-> "ValueError", list |-> list, pos |-> 0]
    ELSE [err |-> "",
          list |-> SubSeq(list, 1, i) \o <<transition>>
                   \o SubSeq(list, i + 1, Len(list)),
          pos |-> i + 1]

\* add_transition putting the transition at idx, before the current one
add_transition_at_idx(list, i, transition) ==
    IF transition.date < list[i].date
    THEN [err |-> "ValueError", list |-> list, pos |-> 0]
    ELSE [err |-> "",
          list |-> SubSeq(list, 1, i - 1) \o <<transition>>
                   \o SubSeq(list, i, Len(list)),
          pos |-> i]

\* add_transition(transitions, idx, transition); idx counts from 1 here.
\* Result: [err, list, pos] with pos the place the transition went to.
add_transition(list, i, transition) ==
    IF transition.date < list[i].date
    THEN [err |-> "ValueError", list |-> list, pos |-> 0]
    ELSE LET later == {ii \in (i + 1)..Len(list) : transition.date < list[ii].date}
         IN IF later # {}
            THEN LET ii == CHOOSE x \in later : \A y \in later : x <= y
                 IN [err |-> "",
                     list |-> SubSeq(list, 1, ii - 1) \o <<transition>>
                              \o SubSeq(list, ii, Len(list)),
                     pos |-> ii]
            ELSE [err |-> "", list |-> Append(list, transition),
                  pos |-> Len(list) + 1]

-----------------------------------------------------------------------------
(* Deferred closures.  A fold record f holds the locals of                   *)
(* get_states_for_cmds: state_keys, transitions, idx, states, datestarts,    *)
(* plus err (the exception that ended it), warned and calls (one record per  *)
(* closure call of the current step).  state is the last row of states.      *)

Last(seq) == seq[Len(seq)]

State(f) == Last(f.states)

\* state[key] = value (a key the row lacks is added, as a dict does)
SetState(f, key, value) ==
    [f EXCEPT !.states[Len(f.states)] = (key :> value) @@ @]

RECURSIVE SetStates(_, _, _)
SetStates(f, keys, values) ==
    IF keys = <<>> THEN f
    ELSE Let(LAMBDA f1 : SetStates(f1, Tail(keys), Tail(values)),
             SetState(f, Head(keys), Head(values)))

\* spacing of the attitudes Chandra.Maneuver.attitudes returns (seconds)
MANVR_STEP == 300

\* Chandra.Maneuver.attitudes(curr_att, targ_att, tstart): n samples from the
\* current to the target attitude, the first at tstart, those in between
\* interpolated (a move from an attitude to itself stays there).  An attitude is the
\* 4-tuple of its components; pitch and off_nom_roll are numbers derived from
\* the attitude.
attitudes(curr_att, targ_att, tstart, n) ==
    [k \in 1..n |->
        LET q == IF k = n THEN targ_att
                 ELSE IF k = 1 \/ curr_att = targ_att THEN curr_att
                 ELSE [c \in 1..4 |->
                          Num((curr_att[c].n * (n - k) + targ_att[c].n * (k - 1))
                              \div (n - 1))]
        IN [time |-> tstart + (k - 1) * MANVR_STEP, q |-> q,
            pitch |-> 2 * q[1].n, off_nom_roll |-> 4 * q[1].n]]

\* Chandra.Maneuver.NSM_attitude(curr_att, date): the sun-pointed attitude
NSM_attitude(curr_att, date) == [c \in 1..4 |-> Num(9)]

\* the loop of add_manvr_transitions over the sampled attitudes; r = [f, date,
\* pos] with pos the places the transitions went to
RECURSIVE manvr_loop(_, _, _, _, _)
manvr_loop(r, atts, pitches, off_nom_rolls, k) ==
    IF k > Len(atts) \/ r.f.err # "" THEN r
    ELSE Let(LAMBDA r1 : manvr_loop(r1, atts, pitches, off_nom_rolls, k + 1),
             LET att == atts[k]
                 transition ==
                     [date |-> att.time,
                      items |-> [c \in 1..4 |-> KV(QUAT_COMPS[c], att.q[c])]
                                \o <<KV("pitch", Num(pitches[k])),
                                     KV("off_nom_roll", Num(off_nom_rolls[k])),
                                     KV("ra", Num(att.q[1].n)),
                                     KV("dec", Num(att.q[1].n)),
                                     KV("roll", Num(att.q[1].n))>>]
             IN Let(LAMBDA a :
                        [f |-> [r.f EXCEPT !.transitions = a.list, !.err = a.err],
                         date |-> att.time,
                         pos |-> IF a.err = "" THEN Append(r.pos, a.pos)
                                 ELSE r.pos],
                    add_transition(r.f.transitions, r.f.idx, transition)))

\* the startup step left out
seed_quat_never(f) == f

\* lines 401-403: while q1 is None, q1..q4 of the state are set to the
\* target attitude
seed_quat(f) ==
    IF State(f)["q1"] = NoneV
    THEN SetStates(f, QUAT_COMPS, [c \in 1..4 |-> State(f)[TARG_COMPS[c]]])
    ELSE f

\* ManeuverTransition.add_manvr_transitions(date, transitions, state, idx, cmd);
\* cmd_date is cmd['date'], n the number of attitudes the helper returns.
\* Result: [f, date, pos], date being the returned end-of-maneuver date.
add_manvr_transitions(f, date, cmd_date, n) ==
    LET targ_att == [c \in 1..4 |-> State(f)[TARG_COMPS[c]]]
        with_quat(f1) ==
            LET curr_att == [c \in 1..4 |-> State(f1)[QUAT_COMPS[c]]]
                sampled(atts) ==
                    LET pitches ==
                            [k \in 1..n |->
                                IF k < n
                                THEN (atts[k].pitch + atts[k + 1].pitch) \div 2
                                ELSE atts[n].pitch]
                        off_nom_rolls ==
                            [k \in 1..n |->
                                IF k < n
                                THEN (atts[k].off_nom_roll
                                      + atts[k + 1].off_nom_roll) \div 2
                                ELSE atts[n].off_nom_roll]
                    IN manvr_loop([f |-> f1, date |-> date, pos |-> <<>>],
                                  atts, pitches, off_nom_rolls, 1)
            IN Let(sampled, attitudes(curr_att, targ_att, cmd_date, n))
    IN Let(with_quat, seed_quat(f))

\* what a closure call did: its function, the value of auto_npnt it read, the
\* length of transitions before it, the places of the sampled transitions and
\* of the pcad_mode transition (0 when none), and the end-of-maneuver date
Call(func, auto_npnt, before, samples, npnt, end_date) ==
    [func |-> func, auto_npnt |-> auto_npnt, before |-> before,
     samples |-> samples, npnt |-> npnt, end_date |-> end_date]

\* add_transitions going to NPNT after every maneuver
Maneuver_add_transitions_always(f, date, cmd_date, n) ==
    LET after_manvr(r) ==
            Let(LAMBDA a :
                    [r.f EXCEPT
                       !.transitions = a.list, !.err = a.err,
                       !.calls = Append(@, Call("ManeuverTransition",
                                                State(r.f)["auto_npnt"],
                                                Len(f.transitions), r.pos,
                                                a.pos, r.date))],
                add_transition(r.f.transitions, r.f.idx,
                               [date |-> r.date,
                                items |-> <<KV("pcad_mode", Str("NPNT"))>>]))
    IN Let(after_manvr, add_manvr_transitions(f, date, cmd_date, n))

\* ManeuverTransition.add_transitions(date, transitions, state, idx, cmd)
Maneuver_add_transitions(f, date, cmd_date, n) ==
    LET after_manvr(r) ==
            LET auto == State(r.f)["auto_npnt"]
                before == Len(f.transitions)
            IN IF r.f.err # "" THEN r.f
               ELSE IF auto = Str("ENAB")
               THEN Let(LAMBDA a :
                            [r.f EXCEPT
                               !.transitions = a.list, !.err = a.err,
                               !.calls = Append(@, Call("ManeuverTransition",
                                                        auto, before, r.pos,
                                                        a.pos, r.date))],
                        add_transition(
                            r.f.transitions, r.f.idx,
                            [date |-> r.date,
                             items |-> <<KV("pcad_mode", Str("NPNT"))>>]))
               ELSE [r.f EXCEPT
                       !.calls = Append(@, Call("ManeuverTransition", auto,
                                                before, r.pos, 0, r.date))]
    IN Let(after_manvr, add_manvr_transitions(f, date, cmd_date, n))

\* NormalSunTransition.add_transitions(date, transitions, state, idx, cmd)
NormalSun_add_transitions(f, date, cmd_date, n) ==
    LET after_manvr(r) ==
            [r.f EXCEPT
               !.calls = Append(@, Call("NormalSunTransition",
                                        State(r.f)["auto_npnt"],
                                        Len(f.transitions), r.pos, 0, r.date))]
        with_mode(f1) ==
            LET curr_att == [c \in 1..4 |-> State(f1)[QUAT_COMPS[c]]]
                targ_att == NSM_attitude(curr_att, cmd_date)
            IN Let(after_manvr,
                   add_manvr_transitions(SetStates(f1, TARG_COMPS, targ_att),
                                         date, cmd_date, n))
    IN Let(with_mode, SetState(f, "pcad_mode", Str("NSUN")))

\* Ska.Sun.pitch / off_nominal_roll of the attitude at a date
SunPitch(q, date) == Num(date + q[1].n)

\* the sample taken in every pcad_mode
update_sun_vector_state_always(f, date) ==
    Let(LAMBDA f1 :
            [f1 EXCEPT
               !.calls = Append(@, Call("update_sun_vector_state", NoneV,
                                        Len(f.transitions), <<>>, 0, date))],
        LET q_att == [c \in 1..4 |-> State(f)[QUAT_COMPS[c]]]
        IN SetStates(f, <<"pitch", "off_nom_roll">>,
                     <<SunPitch(q_att, date), SunPitch(q_att, date + 1)>>))

\* update_sun_vector_state(date, transitions, state, idx)
update_sun_vector_state(f, date) ==
    Let(LAMBDA f1 :
            [f1 EXCEPT
               !.calls = Append(@, Call("update_sun_vector_state", NoneV,
                                        Len(f.transitions), <<>>, 0, date))],
        IF State(f)["pcad_mode"] = Str("NPNT")
        THEN LET q_att == [c \in 1..4 |-> State(f)[QUAT_COMPS[c]]]
             IN SetStates(f, <<"pitch", "off_nom_roll">>,
                          <<SunPitch(q_att, date), SunPitch(q_att, date + 1)>>)
        ELSE f)

\* func(date, transitions, state, idx, **value)
call_func(f, value, date, n) ==
    CASE value.s = "ManeuverTransition" ->
             Maneuver_add_transitions(f, date, value.n, n)
      [] value.s = "NormalSunTransition" ->
             NormalSun_add_transitions(f, date, value.n, n)
      [] value.s = "update_sun_vector_state" -> update_sun_vector_state(f, date)

-----------------------------------------------------------------------------
(* get_states_for_cmds *)

\* Final datestop '2099:365:00:00:00.000': model dates count seconds from an
\* epoch chosen so that this date is 2000000000 (TLC's integers are 32 bits)
DATESTOP_2099 == 2000000000

\* the requested keys taken as they are, no rule's other keys added
expand_state_keys_own(keys, ord) ==
    IF keys = NoKeys THEN STATE_KEYS ELSE keys

\* the state keys of every class that touches a requested key (lines 674-688)
expand_state_keys(keys, ord) ==
    IF keys = NoKeys THEN STATE_KEYS
    ELSE _unique(Concat(
             [i \in 1..Len(keys) |->
                 Concat([j \in 1..Len(ord) |->
                            IF keys[i] \in Range(RuleClasses[ord[j]].state_keys)
                            THEN RuleClasses[ord[j]].state_keys
                            ELSE <<>>])]))

\* the first state with the state0 argument left out
first_state_none(skeys, st0) == [k \in Range(skeys) |-> NoneV]

\* lines 702 and 710-714: the first state, None but for the state0 values of
\* the processed state keys
first_state(skeys, st0) ==
    [k \in Range(skeys) |-> IF k \in DOMAIN st0 THEN st0[k] ELSE NoneV]

\* the test for the one key that no rule declares
wants_sun_vector_roll(skeys) == "off_nominal_roll" \in Range(skeys)

\* line 697, on the state keys after their expansion
wants_sun_vector(skeys) ==
    "pitch" \in Range(skeys) \/ "off_nominal_roll" \in Range(skeys)

\* get_states_for_cmds up to the start of the main loop (lines 674-720)
fold_setup(cs, keys, st0, ord) ==
    LET with_keys(skeys) ==
            LET sun == wants_sun_vector(skeys)
                with_list0(list0) ==
                    LET with_list(list) ==
                            LET row0 == first_state(skeys, st0)
                                e == IF sun /\ cs = <<>> THEN "IndexError"
                                     ELSE IF list = <<>> THEN "NoTransitionsError"
                                     ELSE ""
                            IN [state_keys |-> skeys,
                                transitions |-> list,
                                idx |-> 0,
                                states |-> IF e = "IndexError" THEN <<>>
                                           ELSE <<row0>>,
                                datestarts |-> IF e = "" THEN <<list[1].date>>
                                               ELSE <<>>,
                                err |-> e,
                                warned |-> IF e = ""
                                           THEN DOMAIN st0 \ Range(skeys)
                                           ELSE {},
                                calls |-> <<>>]
                    IN Let(with_list,
                           IF sun /\ cs # <<>>
                           THEN add_sun_vector_transitions(
                                    cs[1].date, cs[Len(cs)].date, list0)
                           ELSE list0)
            IN Let(with_list0, get_transitions_list(cs, skeys, ord))
    IN Let(with_keys, expand_state_keys(keys, ord))

\* the loop that stores every item but the date, a closure under its
\* transition key as well, after calling it
RECURSIVE process_items_store(_, _, _, _, _)
process_items_store(f, items, date, k, n) ==
    IF k > Len(items) \/ f.err # "" THEN f
    ELSE Let(LAMBDA f1 : process_items_store(f1, items, date, k + 1, n),
             LET key == items[k].k
                 value == items[k].v
             IN IF IsDict(value)
                THEN SetState(call_func(f, value, date, n), key, value)
                ELSE IF key # "date" THEN SetState(f, key, value)
                ELSE f)

\* the loop over transition.items() (lines 735-744)
RECURSIVE process_items(_, _, _, _, _)
process_items(f, items, date, k, n) ==
    IF k > Len(items) \/ f.err # "" THEN f
    ELSE Let(LAMBDA f1 : process_items(f1, items, date, k + 1, n),
             LET key == items[k].k
                 value == items[k].v
             IN IF IsDict(value) THEN call_func(f, value, date, n)
                ELSE IF key # "date" THEN SetState(f, key, value)
                ELSE f)

\* an iteration that appends the state without copying it: the row before
\* and the new row are one dict
fold_step_shared(f, n) ==
    LET i == f.idx + 1
        transition == f.transitions[i]
        date == transition.date
        fresh == date # Last(f.datestarts)
        f1 == IF fresh
              THEN [f EXCEPT !.states = Append(@, State(f)),
                             !.datestarts = Append(@, date)]
              ELSE f
    IN Let(LAMBDA g : IF fresh
                      THEN [g EXCEPT !.states[Len(g.states) - 1] = State(g)]
                      ELSE g,
           process_items([f1 EXCEPT !.idx = i, !.calls = <<>>],
                         transition.items, date, 1, n))

\* one iteration of the main loop (lines 722-744), for the next idx
fold_step(f, n) ==
    LET i == f.idx + 1
        transition == f.transitions[i]
        date == transition.date
        f1 == IF date # Last(f.datestarts)
              THEN [f EXCEPT !.states = Append(@, State(f)),
                             !.datestarts = Append(@, date)]
              ELSE f
    IN process_items([f1 EXCEPT !.idx = i, !.calls = <<>>],
                     transition.items, date, 1, n)

\* the table with each row but the last stopping at its own start
make_table_own(f) ==
    LET m == Len(f.datestarts)
    IN [names |-> <<"datestart", "datestop">> \o f.state_keys,
        rows |-> f.states,
        datestart |-> f.datestarts,
        datestop |-> [i \in 1..m |->
                         IF i < m THEN f.datestarts[i] ELSE DATESTOP_2099]]

\* the table built after the loop (lines 746-756)
make_table(f) ==
    LET m == Len(f.datestarts)
    IN [names |-> <<"datestart", "datestop">> \o f.state_keys,
        rows |-> f.states,
        datestart |-> f.datestarts,
        datestop |-> [i \in 1..m |->
                         IF i < m THEN f.datestarts[i + 1] ELSE DATESTOP_2099]]

FoldDone(f) == f.err # "" \/ f.idx >= Len(f.transitions)

\* the whole main loop
RECURSIVE fold_loop(_, _)
fold_loop(f, n) ==
    IF FoldDone(f) THEN f
    ELSE Let(LAMBDA f1 : fold_loop(f1, n), fold_step(f, n))

NoTable == [names |-> <<>>, rows |-> <<>>, datestart |-> <<>>, datestop |-> <<>>]

\* get_states_for_cmds(cmds, state_keys, state0): [err, table]
get_states_for_cmds(cs, keys, st0, ord, n) ==
    Let(LAMBDA f : [err |-> f.err,
                    table |-> IF f.err = "" THEN make_table(f) ELSE NoTable],
        fold_loop(fold_setup(cs, keys, st0, ord), n))

-----------------------------------------------------------------------------
(* Specification Spec: one call of get_states_for_cmds *)

\* number of entries of CmdPool the command lists are drawn from
MaxPool == 7

\* largest number of attitudes a maneuver is sampled at
MaxAtts == 2

\* A time-ordered command archive; a call is given any sub-list of its first
\* MaxPool commands.
CmdPool == <<
    [Cmd(7500, "MP_TARGQUAT", "") EXCEPT !.q = 1],
    Cmd(9700, "COMMAND_SW", "AONM2NPE"),
    Cmd(9700, "COMMAND_SW", "AOMANUVR"),
    Cmd(10000, "COMMAND_SW", "AONSMSAF"),
    Cmd(10000, "COMMAND_SW", "4OHETGIN"),
    Cmd(12500, "COMMAND_SW", "AONM2NPD"),
    Cmd(12500, "COMMAND_SW", "AOMANUVR"),
    [Cmd(15000, "MP_OBSID", "") EXCEPT !.id = 7],
    Cmd(15000, "COMMAND_SW", "4OHETGRE"),
    Cmd(15000, "COMMAND_SW", "AONPMODE"),
    Cmd(20000, "COMMAND_SW", "AONMMODE"),
    Cmd(20000, "COMMAND_HW", "OTHER") >>

PoolSize == IF MaxPool < Len(CmdPool) THEN MaxPool ELSE Len(CmdPool)

\* the commands of pool at the places in S, in pool order
RECURSIVE SubList(_, _, _)
SubList(pool, S, i) ==
    IF i > Len(pool) THEN <<>>
    ELSE (IF i \in S THEN <<pool[i]>> ELSE <<>>) \o SubList(pool, S, i + 1)

ReqChoices == {<<"hetg">>, <<"q1">>, <<"obsid", "off_nom_roll">>, NoKeys}

State0Choices ==
    {<<>>,
     [k \in {"auto_npnt", "pcad_mode", "hetg", "q1", "q2", "q3", "q4",
             "targ_q1", "targ_q2", "targ_q3", "targ_q4", "tstart"} |->
         CASE k = "auto_npnt" -> Str("ENAB")
           [] k = "pcad_mode" -> Str("NPNT")
           [] k = "hetg" -> Str("RETR")
           [] k \in Range(QUAT_COMPS) -> Num(2)
           [] k \in Range(TARG_COMPS) -> Num(3)
           [] OTHER -> Num(0)]}

\* the variables of the other operations, which a specification that does
\* not run them leaves at these values
IdleReduce == rin = NoTable /\ rkeys = <<>> /\ rout = NoTable /\ rout2 = NoTable

IdleAdd == newt = [date |-> 0, items |-> <<>>]

IdleSPM == spm = SPMEclipse_init(EmptyTd)

IdleState0 ==
    /\ s0 = <<>> /\ s0date = 0 /\ lookbacks = <<>> /\ queried = <<>>
    /\ natts = 1 /\ msg = <<>>

IdleFold ==
    /\ state0 = <<>> /\ state_keys = <<>> /\ states = <<>> /\ datestarts = <<>>
    /\ table = NoTable /\ warned = {} /\ log = <<>>

IdleFilter ==
    /\ idx_cmds = <<>> /\ pars_dict = <<>> /\ query = <<>> /\ found = <<>>

IdleEvents ==
    /\ events = <<>> /\ foreign = <<>> /\ updates = <<>> /\ fetched = <<>>

IdleSun == sunwin = <<>>

IdleRegistry == registry = <<>> /\ declared = <<>>

IdleMore == IdleFilter /\ IdleEvents /\ IdleSun /\ IdleRegistry

reduceVars == <<rin, rkeys, rout, rout2>>

filterVars == <<idx_cmds, pars_dict, query, found>>

eventVars == <<events, foreign, updates, fetched>>

regVars == <<registry, declared>>

moreVars == <<filterVars, eventVars, sunwin, regVars>>

state0Vars == <<s0, s0date, lookbacks, queried, natts, msg>>

FoldInit ==
    /\ pc = "start"
    /\ \E S \in SUBSET (1..PoolSize) : cmds = SubList(CmdPool, S, 1)
    /\ req \in ReqChoices
    /\ state0 \in State0Choices
    /\ order \in ClassOrders
    /\ state_keys = <<>> /\ transitions = <<>> /\ idx = 0 /\ states = <<>>
    /\ datestarts = <<>> /\ table = NoTable /\ err = "" /\ warned = {}
    /\ log = <<>>
    /\ IdleReduce /\ IdleAdd /\ IdleSPM /\ IdleState0 /\ IdleMore

foldVars == <<state_keys, transitions, idx, states, datestarts, err, warned, log>>

otherVars == <<reduceVars, newt, spm, state0Vars, moreVars>>

\* the locals of the running call as a fold record
F == [state_keys |-> state_keys, transitions |-> transitions, idx |-> idx,
      states |-> states, datestarts |-> datestarts, err |-> err,
      warned |-> warned, calls |-> log]

SetF(f) ==
    /\ state_keys' = f.state_keys
    /\ transitions' = f.transitions
    /\ idx' = f.idx
    /\ states' = f.states
    /\ datestarts' = f.datestarts
    /\ err' = f.err
    /\ warned' = f.warned
    /\ log' = f.calls

\* lines 674-720: state keys, transition list, first row
Setup ==
    /\ pc = "start"
    /\ \E f \in {fold_setup(cmds, req, state0, order)} :
          /\ SetF(f)
          /\ pc' = IF f.err # "" THEN "raised" ELSE "loop"
    /\ UNCHANGED <<cmds, req, state0, order, table, otherVars>>

\* lines 722-744: one transition of the main loop
FoldStep ==
    /\ pc = "loop"
    /\ idx < Len(transitions)
    /\ \E n \in 1..MaxAtts :
          \E f \in {fold_step(F, n)} :
             /\ SetF(f)
             /\ pc' = IF f.err # "" THEN "raised" ELSE "loop"
    /\ UNCHANGED <<cmds, req, state0, order, table, otherVars>>

\* lines 746-756: the table is built and returned
Finish ==
    /\ pc = "loop"
    /\ idx >= Len(transitions)
    /\ table' = make_table(F)
    /\ pc' = "returned"
    /\ UNCHANGED <<cmds, req, state0, order, foldVars, otherVars>>

FoldNext == Setup \/ FoldStep \/ Finish

Spec == FoldInit /\ [][FoldNext]_vars

\* C1: in the table get_states_for_cmds returns, each row but the last stops
\* where the next row starts, and the last row stops at 2099:365:00:00:00.000
C1_interval_table ==
    pc = "returned" =>
        /\ Len(table.datestart) >= 1
        /\ Len(table.datestop) = Len(table.datestart)
        /\ Len(table.rows) = Len(table.datestart)
        /\ \A i \in 1..(Len(table.datestart) - 1) :
              table.datestop[i] = table.datestart[i + 1]
        /\ table.datestop[Len(table.datestop)] = DATESTOP_2099

\* a transition a maneuver put into the list: only those set ra
IsSample(transition) == \E i \in 1..Len(transition.items) : transition.items[i].k = "ra"

\* a sun-sample transition
IsSunSample(transition) ==
    \E i \in 1..Len(transition.items) : transition.items[i].k = "update_pitch"

\* a table of four rows or more has been returned from a state0 that was
\* given, after a maneuver put transitions into the list
C1_witness ==
    /\ pc = "returned"
    /\ Len(table.datestart) >= 4
    /\ state0 # <<>>
    /\ \E i \in 1..Len(transitions) : IsSample(transitions[i])
    /\ table.datestop[1] = table.datestart[2]

\* C2: in the table get_states_for_cmds returns, every row starts before it
\* stops (so the start dates increase strictly), also when closures have put
\* transitions into the list during the fold
C2_monotonic_dates ==
    pc = "returned" =>
        \A i \in 1..Len(table.datestart) : table.datestart[i] < table.datestop[i]

\* a table has been returned after a fold over sun samples and over maneuver
\* transitions that two maneuvers put into the list
C2_witness ==
    /\ pc = "returned"
    /\ \E i \in 1..Len(transitions) : IsSunSample(transitions[i])
    /\ Cardinality({i \in 1..Len(transitions) : IsSample(transitions[i])}) >= 3
    /\ Len(table.datestart) >= 5

\* the rules find no transition for the requested keys in cmds
NoCmdTransitions ==
    get_transitions_list(cmds, expand_state_keys(req, order), order) = <<>>

\* C8: whenever the commands hold no transition for the requested keys,
\* get_states_for_cmds raises NoTransitionsError and nothing else
C8_no_transitions ==
    (pc # "start" /\ NoCmdTransitions) =>
        (pc = "raised" /\ err = "NoTransitionsError")

\* the list with the entries at the places in P removed
RemoveAt(list, P) ==
    Let(LAMBDA at : [k \in 1..Len(at) |-> list[at[k]]],
        Ascending((1..Len(list)) \ P))

HasKey(transition, key) ==
    \E i \in 1..Len(transition.items) : transition.items[i].k = key

\* C9: a step of the fold that runs the AOMANUVR closure puts into the list
\* the sampled attitudes and, when auto_npnt is ENAB at that moment, exactly
\* one more transition, which sets pcad_mode to NPNT only, is dated at the
\* last sample and comes after it; when auto_npnt is anything else the
\* closure puts no transition with pcad_mode into the list.
C9_maneuver_auto_npnt ==
    [][FoldStep =>
          \A c \in Range(log') :
             c.func = "ManeuverTransition" /\ err' = "" =>
                LET put == Range(c.samples) \cup (IF c.npnt > 0 THEN {c.npnt} ELSE {})
                    last == c.samples[Len(c.samples)]
                IN /\ RemoveAt(transitions', put) = transitions
                   /\ Cardinality(put) = Len(transitions') - Len(transitions)
                   /\ \A i \in Range(c.samples) : ~HasKey(transitions'[i], "pcad_mode")
                   /\ IF c.auto_npnt = Str("ENAB")
                      THEN /\ c.npnt > last
                           /\ transitions'[c.npnt] =
                                 [date |-> transitions'[last].date,
                                  items |-> <<KV("pcad_mode", Str("NPNT"))>>]
                           /\ \A i \in (last + 1)..(c.npnt - 1) :
                                 transitions'[i].date = transitions'[last].date
                      ELSE c.npnt = 0]_vars

\* the fold has run a maneuver closure with auto_npnt ENAB: two samples and
\* the pcad_mode transition after them are in the list
C9_witness ==
    /\ pc = "loop"
    /\ \E c \in Range(log) :
          /\ c.func = "ManeuverTransition"
          /\ c.auto_npnt = Str("ENAB")
          /\ Len(c.samples) = 2
          /\ c.npnt > c.samples[2]
          /\ transitions[c.npnt].items = <<KV("pcad_mode", Str("NPNT"))>>
    /\ \E i \in 1..Len(states) : states[i]["auto_npnt"] = Str("DISA")

\* the state keys a closure may assign in the current state
ClosureKeys(func) ==
    CASE func = "ManeuverTransition" -> Range(QUAT_COMPS)
      [] func = "NormalSunTransition" ->
             Range(QUAT_COMPS) \cup Range(TARG_COMPS) \cup {"pcad_mode"}
      [] func = "update_sun_vector_state" -> {"pitch", "off_nom_roll"}

\* the transition at place i of the list writes the state key k: as a plain
\* item, or in its closure
Writes(i, k) ==
    \E j \in 1..Len(transitions[i].items) :
        LET item == transitions[i].items[j]
        IN  IF IsDict(item.v) THEN k \in ClosureKeys(item.v.s) ELSE item.k = k

\* no transition processed so far and dated in dates writes the state key k
Unwritten(k, dates) ==
    \A i \in 1..idx : transitions[i].date \in dates => ~Writes(i, k)

\* C15: a state0 entry for a processed state key is the value of the first
\* row unless a transition at the first date overwrites it, and stays the
\* value of the later rows until a transition writes the key; an unknown
\* state0 key gets a warning only: the call ends as it does without that key
\* and the key is in no row and no column of the table
C15_state0 ==
    /\ pc \in {"loop", "returned"} =>
          /\ \A r \in 1..Len(states) :
                /\ DOMAIN states[r] = Range(state_keys)
                /\ \A k \in DOMAIN state0 \cap Range(state_keys) :
                      Unwritten(k, {datestarts[q] : q \in 1..r})
                          => states[r][k] = state0[k]
                /\ \A k \in Range(state_keys) :
                      r > 1 /\ Unwritten(k, {datestarts[r]})
                          => states[r][k] = states[r - 1][k]
          /\ warned = DOMAIN state0 \ Range(state_keys)
    /\ pc = "returned" =>
          /\ err = ""
          /\ Range(table.names) \cap warned = {}
          /\ table.rows = states
    /\ pc = "raised" => err = fold_setup(cmds, req, <<>>, order).err

\* a returned table for a state0 with an unknown key (tstart): the hetg value
\* of state0 is in the first row and replaced in a later one, the pcad_mode
\* value of state0 is replaced in the first row
C15_witness ==
    /\ pc = "returned"
    /\ warned = {"tstart"}
    /\ Len(states) > 2
    /\ states[1]["hetg"] = Str("RETR") /\ state0["hetg"] = Str("RETR")
    /\ \E r \in 2..Len(states) : states[r]["hetg"] = Str("INSR")
    /\ states[1]["auto_npnt"] = Str("ENAB")
    /\ states[2]["auto_npnt"] = Str("ENAB")
    /\ \E r \in 3..Len(states) : states[r]["auto_npnt"] = Str("DISA")

\* C17: the fold processes the transitions in non-decreasing date order:
\* each step processes the entry after the one processed before it, which is
\* dated at or after that one, and leaves the processed part of the list as
\* it is, also when closures put transitions into the list and when
\* sun-vector samples were merged in
C17_processing_order ==
    [][FoldStep =>
          /\ idx' = idx + 1
          /\ SubSeq(transitions', 1, idx') = SubSeq(transitions, 1, idx')
          /\ idx >= 1 => transitions[idx].date <= transitions[idx'].date
          /\ \A i \in (idx' + 1)..Len(transitions') :
                transitions'[idx'].date <= transitions'[i].date]_vars

\* the fold is past a maneuver sample that a closure put into the list
\* between a command and a sun sample, both still to be processed
C17_witness ==
    /\ pc = "loop"
    /\ idx >= 3
    /\ IsSample(transitions[idx])
    /\ \E i \in 1..(idx - 1) : IsSunSample(transitions[i])
    /\ \E i \in (idx + 1)..Len(transitions) : IsSunSample(transitions[i])
    /\ \E i \in (idx + 1)..Len(transitions) :
          /\ ~IsSunSample(transitions[i]) /\ ~IsSample(transitions[i])
          /\ transitions[i].date = transitions[idx].date

-----------------------------------------------------------------------------
(* Specification SpecMech: get_states_for_cmds for the keys hetg and obsid *)

MaxMech == 7

\* grating and obsid commands, some at one date, and commands of other rules
MechPool == <<
    Cmd(1000, "COMMAND_SW", "4OHETGIN"),
    [Cmd(1000, "MP_OBSID", "") EXCEPT !.id = 7],
    Cmd(1500, "COMMAND_HW", "OTHER"),
    Cmd(2000, "COMMAND_SW", "4OHETGRE"),
    [Cmd(2500, "MP_OBSID", "") EXCEPT !.id = 8],
    Cmd(3000, "COMMAND_SW", "4OHETGIN"),
    Cmd(3000, "COMMAND_SW", "4OHETGRE"),
    Cmd(3500, "COMMAND_SW", "AONPMODE"),
    Cmd(4000, "COMMAND_SW", "4OLETGIN") >>

MechSize == IF MaxMech < Len(MechPool) THEN MaxMech ELSE Len(MechPool)

MechReqChoices == {<<"hetg">>, <<"obsid">>, <<"hetg", "obsid">>}

MechState0Choices ==
    {<<>>, [k \in {"hetg", "obsid"} |->
               IF k = "hetg" THEN Str("RETR") ELSE Num(1)]}

MechInit ==
    /\ pc = "start"
    /\ \E S \in SUBSET (1..MechSize) : cmds = SubList(MechPool, S, 1)
    /\ req \in MechReqChoices
    /\ state0 \in MechState0Choices
    /\ order \in ClassOrders
    /\ state_keys = <<>> /\ transitions = <<>> /\ idx = 0 /\ states = <<>>
    /\ datestarts = <<>> /\ table = NoTable /\ err = "" /\ warned = {}
    /\ log = <<>>
    /\ IdleReduce /\ IdleAdd /\ IdleSPM /\ IdleState0 /\ IdleMore

SpecMech == MechInit /\ [][FoldNext]_vars

\* the value a command sets the state key to, for the keys hetg and obsid
Commands(k) ==
    {c \in Range(cmds) :
        IF k = "hetg"
        THEN c.type = "COMMAND_SW" /\ c.tlmsid \in {"4OHETGIN", "4OHETGRE"}
        ELSE k = "obsid" /\ c.type = "MP_OBSID"}

Commanded(c, k) ==
    IF k = "hetg"
    THEN (IF c.tlmsid = "4OHETGIN" THEN Str("INSR") ELSE Str("RETR"))
    ELSE Num(c.id)

DistinctDates(k) == \A c, d \in Commands(k) : c.date = d.date => c = d

MatchDates == {c.date : c \in UNION {Commands(k) : k \in Range(req)}}

\* C16: for a key of single-fixed or param rules (hetg, obsid) the matching
\* commands at the distinct dates T1 < ... < Tn give exactly n rows, row i
\* running from Ti to T(i+1), the last one to the 2099 date, and holding the
\* value commanded at Ti; a command that matches no rule of the requested
\* keys gives no row
C16_mech_rows ==
    /\ pc = "raised" => MatchDates = {}
    /\ pc = "returned" =>
          /\ table.datestart = Ascending(MatchDates)
          /\ \A i \in 1..Len(table.rows) :
                /\ table.datestop[i] = IF i < Len(table.rows)
                                       THEN table.datestart[i + 1]
                                       ELSE DATESTOP_2099
                /\ \A k \in Range(req) : \A c \in Commands(k) :
                      DistinctDates(k) /\ c.date = table.datestart[i]
                          => table.rows[i][k] = Commanded(c, k)

\* hetg commands at three dates among commands of other rules: three rows
C16_witness ==
    /\ pc = "returned"
    /\ req = <<"hetg">>
    /\ \E c \in Range(cmds) : c.tlmsid = "OTHER"
    /\ \E c \in Range(cmds) : c.type = "MP_OBSID"
    /\ table.datestart = <<1000, 2000, 3000>>
    /\ table.datestop = <<2000, 3000, DATESTOP_2099>>
    /\ [i \in 1..3 |-> table.rows[i]["hetg"]]
          = <<Str("INSR"), Str("RETR"), Str("INSR")>>

\* C20: get_transitions_list runs set_transitions of the rules of the
\* requested keys in registration order, so when two rules write one key at
\* one date (4OHETGIN and 4OHETGRE at the same date) the transition keeps the
\* value of the rule registered later (HETG_RETR_Transition: RETR)
C20_registration_order ==
    pc # "start" =>
        \A i \in 1..Len(transitions) :
           /\ HasKey(transitions[i], "hetg")
           /\ \E c, d \in Commands("hetg") :
                 /\ c.date = transitions[i].date /\ c.tlmsid = "4OHETGIN"
                 /\ d.date = transitions[i].date /\ d.tlmsid = "4OHETGRE"
           => \E j \in 1..Len(transitions[i].items) :
                 transitions[i].items[j] = KV("hetg", Str("RETR"))

\* C21: the interval table get_states_for_cmds returns is a function of cmds,
\* state_keys and state0 alone: it is the table the call returns for every
\* order in which set_transitions of the rules is run, also when several
\* rules write into one date
C21_order_independent ==
    pc = "returned" =>
        \A o \in ClassOrders :
            get_states_for_cmds(cmds, req, state0, o, 1).table = table

-----------------------------------------------------------------------------
(* Specification SpecPcad: get_states_for_cmds for attitude commands, a     *)
(* maneuver that is still going on when the normal-sun command comes        *)

MaxPcad == 5

\* a target, a maneuver, the normal-sun command while that maneuver may still
\* be going on, an obsid and the commands that set the mode by hand
PcadPool == <<
    [Cmd(7500, "MP_TARGQUAT", "") EXCEPT !.q = 1],
    Cmd(9700, "COMMAND_SW", "AOMANUVR"),
    Cmd(10000, "COMMAND_SW", "AONSMSAF"),
    [Cmd(11000, "MP_OBSID", "") EXCEPT !.id = 7],
    Cmd(12500, "COMMAND_SW", "AONPMODE"),
    Cmd(13000, "COMMAND_SW", "AONM2NPD"),
    Cmd(13000, "COMMAND_SW", "AOMANUVR") >>

PcadSize == IF MaxPcad < Len(PcadPool) THEN MaxPcad ELSE Len(PcadPool)

PcadReqChoices == {<<"pitch">>, <<"off_nom_roll">>, <<"obsid">>}

\* no state0, or the spacecraft pointing at attitude 2 with target 3 and the
\* automatic transition to NPNT enabled
PcadState0Choices ==
    {<<>>,
     [k \in {"auto_npnt", "pcad_mode", "obsid"} \cup Range(QUAT_COMPS)
            \cup Range(TARG_COMPS) |->
         CASE k = "auto_npnt" -> Str("ENAB")
           [] k = "pcad_mode" -> Str("NPNT")
           [] k = "obsid" -> Num(1)
           [] k \in Range(QUAT_COMPS) -> Num(2)
           [] OTHER -> Num(3)]}

PcadInit ==
    /\ pc = "start"
    /\ \E S \in SUBSET (1..PcadSize) : cmds = SubList(PcadPool, S, 1)
    /\ req \in PcadReqChoices
    /\ state0 \in PcadState0Choices
    /\ order \in ClassOrders
    /\ state_keys = <<>> /\ transitions = <<>> /\ idx = 0 /\ states = <<>>
    /\ datestarts = <<>> /\ table = NoTable /\ err = "" /\ warned = {}
    /\ log = <<>>
    /\ IdleReduce /\ IdleAdd /\ IdleSPM /\ IdleState0 /\ IdleMore

SpecPcad == PcadInit /\ [][FoldNext]_vars

\* the loop of get_states_for_cmds is a plain for loop: once started, the
\* call goes on until it returns or raises
SpecPcadLive == SpecPcad /\ WF_vars(FoldNext)

\* a transition that holds a closure
HasClosure(transition) ==
    \E j \in 1..Len(transition.items) : IsDict(transition.items[j].v)

\* the places where the closures of the last step put transitions
PutPlaces(calls) ==
    UNION {Range(c.samples) \cup (IF c.npnt > 0 THEN {c.npnt} ELSE {}) :
              c \in Range(calls)}

\* C22: the fold ends for every command list; each step applies the entry
\* after the one applied before and leaves the applied entries in place, what
\* a closure puts into the list are plain-value transitions behind the
\* current entry, nothing leaves the list, and when the call returns every
\* entry of the final list has been applied
C22_fold_terminates ==
    /\ <>(pc \in {"returned", "raised"})
    /\ [](pc = "returned" => err = "" /\ idx = Len(transitions))
    /\ [][FoldStep =>
             /\ idx' = idx + 1
             /\ SubSeq(transitions', 1, idx') = SubSeq(transitions, 1, idx')
             /\ PutPlaces(log') \subseteq (idx' + 1)..Len(transitions')
             /\ RemoveAt(transitions', PutPlaces(log')) = transitions
             /\ \A p \in PutPlaces(log') : ~HasClosure(transitions'[p])]_vars

\* a call has returned after closures put transitions into the list: the
\* list is longer than the one the fold started with and all of it is applied
C22_witness ==
    /\ pc = "returned"
    /\ idx = Len(transitions)
    /\ Cardinality({i \in 1..Len(transitions) : IsSample(transitions[i])}) >= 4
    /\ \E i \in 1..Len(transitions) :
          transitions[i].items = <<KV("pcad_mode", Str("NPNT"))>>
    /\ \A c \in Range(cmds) : c.tlmsid # "AONPMODE"

\* C23: from the row of the date of a normal-sun command (AONSMSAF) on,
\* pcad_mode is NSUN in every row up to the first later-dated mode command
\* (AONMMODE, AONPMODE): neither the normal-sun maneuver nor a transition
\* that an earlier maneuver put into the list changes it
C23_normal_sun ==
    pc = "returned" /\ "pcad_mode" \in Range(state_keys) =>
        \A c \in Range(cmds) :
           c.tlmsid = "AONSMSAF" =>
              \A r \in 1..Len(table.rows) :
                 /\ table.datestart[r] >= c.date
                 /\ ~\E d \in Range(cmds) :
                        /\ d.tlmsid \in {"AONMMODE", "AONPMODE"}
                        /\ d.date > c.date /\ d.date <= table.datestart[r]
                 => table.rows[r]["pcad_mode"] = Str("NSUN")

\* the value of the item of a transition under key
ItemOf(transition, key) ==
    transition.items[CHOOSE j \in 1..Len(transition.items) :
                        transition.items[j].k = key].v

\* the target attitude a maneuver closure of the transition finds in the
\* state old: the one the normal-sun closure has just set, else the targ_q
\* item that precedes the closure in the transition, else the state's
TargAtCall(func, transition, old, q) ==
    LET items == transition.items
        at == CHOOSE j \in 1..Len(items) : IsDict(items[j].v)
    IN  IF func = "NormalSunTransition"
        THEN NSM_attitude([c \in 1..4 |-> old[QUAT_COMPS[c]]],
                          transition.date)[q]
        ELSE IF \E j \in 1..(at - 1) : items[j].k = TARG_COMPS[q]
        THEN ItemOf(transition, TARG_COMPS[q])
        ELSE old[TARG_COMPS[q]]

\* C24: a maneuver closure that finds q1 absent sets q1..q4 of the current
\* state to the target attitude and samples the maneuver from the target to
\* itself (every sample carries the target attitude); one that finds q1
\* present leaves q1..q4 of the current state as they are
C24_seed_attitude ==
    [][FoldStep /\ err' = "" =>
          \A c \in Range(log') :
             c.func \in {"ManeuverTransition", "NormalSunTransition"} =>
                LET old == states[Len(states)]
                    new == states'[Len(states')]
                    targ(q) == TargAtCall(c.func, transitions[idx'], old, q)
                IN  IF old["q1"] = NoneV
                    THEN \A q \in 1..4 :
                            /\ new[QUAT_COMPS[q]] = targ(q)
                            /\ \A p \in Range(c.samples) :
                                  ItemOf(transitions'[p], QUAT_COMPS[q]) = targ(q)
                    ELSE \A q \in 1..4 :
                            new[QUAT_COMPS[q]] = old[QUAT_COMPS[q]]]_vars

\* the AOMANUVR closure has just run with a commanded target and no attitude
\* known before: the state and both samples hold the target attitude
C24_witness ==
    /\ pc = "loop"
    /\ state0 = <<>>
    /\ ~\E i \in 1..idx : IsSample(transitions[i])
    /\ \E c \in Range(log) :
          /\ c.func = "ManeuverTransition"
          /\ Len(c.samples) = 2
          /\ states[Len(states)]["targ_q1"] = Num(1)
          /\ states[Len(states)]["q1"] = Num(1)
          /\ ItemOf(transitions[c.samples[1]], "q1") = Num(1)
          /\ ItemOf(transitions[c.samples[2]], "q1") = Num(1)

\* C25: a step of the fold that applies a sun-vector sample leaves the list
\* of transitions as it is; with pcad_mode other than NPNT the row after the
\* step equals the row before it, with pcad_mode NPNT it differs from it in
\* pitch and off_nom_roll at most (q1..q4 and pcad_mode are never changed)
C25_sun_sample_frame ==
    [][FoldStep /\ IsSunSample(transitions[idx + 1]) =>
          LET old == states[Len(states)]
              new == states'[Len(states')]
          IN  /\ err' = ""
              /\ transitions' = transitions
              /\ DOMAIN new = DOMAIN old
              /\ IF old["pcad_mode"] = Str("NPNT")
                 THEN \A k \in DOMAIN old \ {"pitch", "off_nom_roll"} :
                         new[k] = old[k]
                 ELSE new = old]_vars

\* the sample of date 0 was applied in NPNT with the attitude known and gave
\* the row a pitch; the sample of date 10000, applied after the normal-sun
\* command of that date, has left the pitch of date 0 in the row
C25_witness ==
    /\ pc = "loop"
    /\ idx >= 3
    /\ IsSunSample(transitions[1])
    /\ states[1]["pcad_mode"] = Str("NPNT")
    /\ states[1]["pitch"] = SunPitch([c \in 1..4 |-> Num(2)], 0)
    /\ IsSunSample(transitions[idx])
    /\ transitions[idx].date = 10000
    /\ states[Len(states)]["pcad_mode"] = Str("NSUN")
    /\ states[Len(states)]["pitch"] = states[1]["pitch"]

\* the multiples of the sample time from the last one at or before the first
\* command up to, but without, the last command
CmdGridTimes ==
    {t \in {k * SAMPLE_TIME : k \in 0..(cmds[Len(cmds)].date \div SAMPLE_TIME)} :
        t > cmds[1].date - SAMPLE_TIME /\ t < cmds[Len(cmds)].date}

SunSamplePlaces == {i \in 1..Len(transitions) : IsSunSample(transitions[i])}

\* C26: when the requested keys include pitch or off_nom_roll (off_nom_roll
\* alone as well) the list the fold starts with holds one sun-vector sample
\* for each sample time between the first and the last command; when no
\* requested key is a PCAD key it holds none
C26_sun_samples_added ==
    pc \in {"loop", "returned"} =>
        /\ Range(req) \cap {"pitch", "off_nom_roll"} # {} =>
              /\ {transitions[i].date : i \in SunSamplePlaces} = CmdGridTimes
              /\ Cardinality(SunSamplePlaces) = Cardinality(CmdGridTimes)
        /\ Range(req) \cap Range(PCAD_STATE_KEYS) = {} => SunSamplePlaces = {}

\* off_nom_roll alone was requested for commands from 7500 to 12500: the fold
\* starts with the samples of 0 and 10000 in the list
C26_witness ==
    /\ pc = "loop" /\ idx = 0
    /\ req = <<"off_nom_roll">>
    /\ cmds[1].date = 7500 /\ cmds[Len(cmds)].date = 12500
    /\ {transitions[i].date : i \in SunSamplePlaces} = {0, 10000}

-----------------------------------------------------------------------------
(* Specification SpecAdd: one call of add_transition on a date-sorted list *)

\* longest transition list given to add_transition
MaxList == 3

\* the dates of the transitions are 1..MaxDate
MaxDate == 4

\* date-sorted lists of up to MaxList transitions, the i-th setting obsid to i
SortedLists ==
    UNION {{[i \in 1..m |-> [date |-> ds[i], items |-> <<KV("obsid", Num(i))>>]] :
               ds \in {d \in [1..m -> 1..MaxDate] :
                          \A i \in 1..(m - 1) : d[i] <= d[i + 1]}} :
           m \in 1..MaxList}

AddInit ==
    /\ pc = "start"
    /\ transitions \in SortedLists
    /\ idx \in 1..Len(transitions)
    /\ \E d \in 1..MaxDate :
          newt = [date |-> d, items |-> <<KV("pcad_mode", Str("NPNT"))>>]
    /\ err = ""
    /\ cmds = <<>> /\ req = NoKeys /\ order = RegistrationOrder
    /\ IdleFold /\ IdleReduce /\ IdleSPM /\ IdleState0 /\ IdleMore

\* add_transition(transitions, idx, newt)
AddTransition ==
    /\ pc = "start"
    /\ \E a \in {add_transition(transitions, idx, newt)} :
          /\ transitions' = a.list
          /\ err' = a.err
          /\ pc' = IF a.err = "" THEN "returned" ELSE "raised"
    /\ UNCHANGED <<cmds, req, state0, order, state_keys, idx, states, datestarts,
                   table, warned, log, reduceVars, newt, spm, state0Vars, moreVars>>

SpecAdd == AddInit /\ [][AddTransition]_vars

\* the list with its k-th entry removed
Without(list, k) == SubSeq(list, 1, k - 1) \o SubSeq(list, k + 1, Len(list))

\* C5: add_transition raises, leaving the list as it was, exactly when the new
\* transition's date is before the date of transitions[idx]; for every other
\* date (the date of transitions[idx] included) it returns and the list is
\* the old list with the new transition put in at one place.
C5_add_transition ==
    [][AddTransition =>
          /\ (err' = "ValueError") <=> (newt.date < transitions[idx].date)
          /\ (pc' = "raised") <=> (err' = "ValueError")
          /\ err' = "ValueError" => transitions' = transitions
          /\ err' # "ValueError" =>
                /\ err' = ""
                /\ \E k \in 1..Len(transitions') :
                      /\ transitions'[k] = newt
                      /\ Without(transitions', k) = transitions]_vars

\* a call with the date of transitions[idx] has returned with the new
\* transition in the list, after the entry at idx
C5_witness ==
    /\ pc = "returned" /\ err = ""
    /\ newt.date = transitions[idx].date
    /\ \E k \in (idx + 1)..Len(transitions) : transitions[k] = newt
    /\ newt.items # <<>>

\* C18 as stated: add_transition fails for every new transition dated at or
\* before the date of transitions[idx], so no closure can put a transition
\* at or before the date of the transition being folded
C18_insertion_ordering ==
    [][AddTransition =>
          (newt.date <= transitions[idx].date
              => err' = "ValueError" /\ transitions' = transitions)]_vars

\* C18, amended: add_transition fails for every new transition dated before
\* the date of transitions[idx], and the list stays as it was; a transition
\* dated at the date of transitions[idx] is accepted and goes behind idx
C18_insertion_before ==
    [][AddTransition =>
          /\ newt.date < transitions[idx].date
                => pc' = "raised" /\ err' = "ValueError"
                   /\ transitions' = transitions
          /\ newt.date = transitions[idx].date
                => /\ pc' = "returned"
                   /\ newt \in {transitions'[k] :
                                   k \in (idx + 1)..Len(transitions')}
                   /\ SubSeq(transitions', 1, idx) = SubSeq(transitions, 1, idx)]_vars

\* a call with a date before the date of transitions[idx] has raised
C18_witness ==
    /\ pc = "raised" /\ err = "ValueError"
    /\ idx > 1
    /\ newt.date < transitions[idx].date
    /\ newt.date > transitions[1].date
    /\ \A k \in 1..Len(transitions) : transitions[k] # newt

DateSorted(list) == \A i, j \in 1..Len(list) : i < j => list[i].date <= list[j].date

\* C19: on a date-sorted list and for a new transition dated at or after
\* transitions[idx], add_transition leaves the list date-sorted and one entry
\* longer; the new entry is behind idx, after every entry of its date or an
\* earlier one and right before the first entry of a later date (or last);
\* the entries that were there keep their order and contents, and those up
\* to idx their places
C19_sorted_insert ==
    [][AddTransition /\ DateSorted(transitions)
           /\ newt.date >= transitions[idx].date =>
          /\ DateSorted(transitions')
          /\ Len(transitions') = Len(transitions) + 1
          /\ \E k \in (idx + 1)..Len(transitions') :
                /\ transitions'[k] = newt
                /\ \A j \in 1..(k - 1) : transitions'[j].date <= newt.date
                /\ \A j \in (k + 1)..Len(transitions') :
                      transitions'[j].date > newt.date
                /\ Without(transitions', k) = transitions
          /\ SubSeq(transitions', 1, idx) = SubSeq(transitions, 1, idx)]_vars

\* the new transition went between two entries of its own date, behind idx,
\* and an entry of a later date
C19_witness ==
    /\ pc = "returned"
    /\ Len(transitions) = 4
    /\ idx = 1
    /\ transitions[3] = newt
    /\ transitions[1].date = newt.date /\ transitions[2].date = newt.date
    /\ transitions[4].date > newt.date

-----------------------------------------------------------------------------
(* reduce_states, and specification SpecReduce: a table is reduced, and the *)
(* result reduced again, with the same keys                                 *)

\* reduce_states(states, state_keys) on a table [names, rows, datestart,
\* datestop]: rows is the sequence of rows of the state-key columns
reduce_states(tbl, keys) ==
    LET m == Len(tbl.rows)
        \* different[1:] |= (col[:-1] != col[1:]) over the keys
        different == [i \in 1..m |->
                         /\ i > 1
                         /\ \E j \in 1..Len(keys) :
                               tbl.rows[i - 1][keys[j]] # tbl.rows[i][keys[j]]]
    IN Let(LAMBDA kept :
               [names |-> <<"datestart", "datestop">> \o keys,
                rows |-> [j \in 1..Len(kept) |->
                             [k \in Range(keys) |-> tbl.rows[kept[j]][k]]],
                datestart |-> [j \in 1..Len(kept) |-> tbl.datestart[kept[j]]],
                \* out['datestop'][:-1] = out['datestart'][1:]
                datestop |-> [j \in 1..Len(kept) |->
                                 IF j < Len(kept) THEN tbl.datestart[kept[j + 1]]
                                 ELSE tbl.datestop[kept[j]]]],
           Ascending({i \in 1..m : different[i]}))

\* most rows of a table given to reduce_states
MaxRows == 5

\* number of distinct obsid values in those tables
MaxObsid == 3

\* spacing of the datestart values of those tables (seconds)
RowStep == 100

\* the interval table with the given rows, row i starting at i * RowStep
IntervalTable(rows) ==
    [names |-> <<"datestart", "datestop", "obsid", "hetg">>,
     rows |-> rows,
     datestart |-> [i \in 1..Len(rows) |-> i * RowStep],
     datestop |-> [i \in 1..Len(rows) |->
                      IF i < Len(rows) THEN (i + 1) * RowStep ELSE DATESTOP_2099]]

RowChoices ==
    {[k \in {"obsid", "hetg"} |-> IF k = "obsid" THEN Num(o) ELSE Str(h)] :
        o \in 1..MaxObsid, h \in {"INSR", "RETR"}}

ReduceKeyChoices == {<<"obsid">>, <<"hetg">>, <<"obsid", "hetg">>, <<>>}

ReduceInit ==
    /\ pc = "start"
    /\ \E m \in 1..MaxRows : \E rows \in [1..m -> RowChoices] :
          rin = IntervalTable(rows)
    /\ rkeys \in ReduceKeyChoices
    /\ rout = NoTable /\ rout2 = NoTable
    /\ err = "" /\ transitions = <<>> /\ idx = 0
    /\ cmds = <<>> /\ req = NoKeys /\ order = RegistrationOrder
    /\ IdleFold /\ IdleAdd /\ IdleSPM /\ IdleState0 /\ IdleMore

\* out = reduce_states(rin, rkeys)
Reduce ==
    /\ pc = "start"
    /\ rout' = reduce_states(rin, rkeys)
    /\ pc' = "reduced"
    /\ UNCHANGED <<cmds, req, state0, order, foldVars, table, rin, rkeys, rout2,
                   newt, spm, state0Vars, moreVars>>

\* reduce_states(out, rkeys)
ReduceAgain ==
    /\ pc = "reduced"
    /\ rout2' = reduce_states(rout, rkeys)
    /\ pc' = "reduced twice"
    /\ UNCHANGED <<cmds, req, state0, order, foldVars, table, rin, rkeys, rout,
                   newt, spm, state0Vars, moreVars>>

ReduceNext == Reduce \/ ReduceAgain

SpecReduce == ReduceInit /\ [][ReduceNext]_vars

\* the rows of tbl the stated mask keeps: the first row, and every row in
\* which some key of keys differs from the row before
MaskKept(tbl, keys) ==
    Ascending({i \in 1..Len(tbl.rows) :
                  \/ i = 1
                  \/ \E j \in 1..Len(keys) :
                        tbl.rows[i - 1][keys[j]] # tbl.rows[i][keys[j]]})

\* C3: reduce_states(table, K) keeps row i exactly when i is the first row or
\* some key of K differs between row i and the row before it: the output is
\* those rows of the input, in order, restricted to K.
C3_reduce_mask ==
    pc # "start" =>
        /\ Len(rout.rows) = Len(MaskKept(rin, rkeys))
        /\ \A j \in 1..Len(rout.rows) :
              /\ rout.datestart[j] = rin.datestart[MaskKept(rin, rkeys)[j]]
              /\ \A k \in Range(rkeys) :
                    rout.rows[j][k] = rin.rows[MaskKept(rin, rkeys)[j]][k]

\* C4: reducing a reduced table again with the same keys gives the same table
C4_reduce_idempotent == pc = "reduced twice" => rout2 = rout

\* C30: the table reduce_states returns covers the time range of its input
\* without gaps: each row but the last stops where the next one starts, the
\* first row starts where the input's first row starts and the last row
\* stops where the input's last row stops
C30_reduce_range ==
    pc # "start" =>
        /\ Len(rout.rows) >= 1
        /\ \A i \in 1..(Len(rout.rows) - 1) :
              rout.datestop[i] = rout.datestart[i + 1]
        /\ rout.datestart[1] = rin.datestart[1]
        /\ rout.datestop[Len(rout.rows)] = rin.datestop[Len(rin.rows)]

-----------------------------------------------------------------------------
(* Specification SpecSPM: the loop of SPMEclipseEnableTransition            *)
(* .set_transitions, one command of the time-ordered cmds per step.  cmds   *)
(* holds the commands read so far; the loop's locals are in spm.            *)

\* most commands given to the rule
MaxSpm == 4

\* date of the first command; command dates are seconds since 1998.0 and the
\* archive starts in 2002, so every date exceeds the 125 s limit
SpmEpoch == 1000

\* the gaps between successive commands: below the limit, and the limit
SpmGaps == {SPM_CONNECT_LIMIT - 25, SPM_CONNECT_LIMIT}

\* the kinds of command: battery connect, the orbit events, another command
SpmKinds ==
    {[type |-> "COMMAND_SW", tlmsid |-> "EOESTECN", event_type |-> ""],
     [type |-> "ORBPOINT", tlmsid |-> "", event_type |-> "PENTRY"],
     [type |-> "ORBPOINT", tlmsid |-> "", event_type |-> "LSPENTRY"],
     [type |-> "ORBPOINT", tlmsid |-> "", event_type |-> "PEXIT"],
     [type |-> "ORBPOINT", tlmsid |-> "", event_type |-> "LSPEXIT"],
     [type |-> "ORBPOINT", tlmsid |-> "", event_type |-> "EAPOGEE"],
     [type |-> "COMMAND_SW", tlmsid |-> "AONPMODE", event_type |-> ""]}

SPMInit ==
    /\ pc = "loop"
    /\ cmds = <<>>
    /\ spm = SPMEclipse_init(EmptyTd)
    /\ err = "" /\ transitions = <<>> /\ idx = 0
    /\ req = NoKeys /\ order = RegistrationOrder
    /\ IdleFold /\ IdleReduce /\ IdleAdd /\ IdleState0 /\ IdleMore

\* the next command of the table: dropped by the preselection, or one
\* iteration of the loop
SPMStep ==
    /\ pc = "loop"
    /\ Len(cmds) < MaxSpm
    /\ \E kind \in SpmKinds, gap \in SpmGaps :
          \E cmd \in {[Cmd(IF cmds = <<>> THEN SpmEpoch ELSE Last(cmds).date + gap,
                           kind.type, kind.tlmsid)
                          EXCEPT !.event_type = kind.event_type]} :
             /\ cmds' = Append(cmds, cmd)
             /\ spm' = IF SPMEclipse_select(<<cmd>>) = <<>>
                       THEN [spm EXCEPT !.wrote = FALSE]
                       ELSE SPMEclipse_step(spm, cmd)
    /\ UNCHANGED <<pc, req, state0, order, foldVars, table, reduceVars, newt,
                   state0Vars, moreVars>>

\* the loop ends: set_transitions returns
SPMReturn ==
    /\ pc = "loop"
    /\ pc' = "returned"
    /\ UNCHANGED <<cmds, req, state0, order, foldVars, table, reduceVars, newt,
                   spm, state0Vars, moreVars>>

SPMNext == SPMStep \/ SPMReturn

SpecSPM == SPMInit /\ [][SPMNext]_vars

IsConnect(c) == c.tlmsid = "EOESTECN"

IsEntry(c) == c.type = "ORBPOINT" /\ c.event_type \in {"PENTRY", "LSPENTRY"}

IsExit(c) == c.type = "ORBPOINT" /\ c.event_type \in {"PEXIT", "LSPEXIT"}

\* the exit at place x of cs is armed: the most recent entry before it came
\* less than 125 s after the most recent battery connect before that entry,
\* and no other exit came since that entry
Armed(cs, x) ==
    \E e \in 1..(x - 1) :
       /\ IsEntry(cs[e])
       /\ \A j \in (e + 1)..(x - 1) : ~IsEntry(cs[j]) /\ ~IsExit(cs[j])
       /\ \E c \in 1..(e - 1) :
             /\ IsConnect(cs[c])
             /\ \A j \in (c + 1)..(e - 1) : ~IsConnect(cs[j])
             /\ cs[e].date - cs[c].date < 125

\* C10: reading a command, the SPM eclipse rule sets sun_pos_mon to ENAB at
\* the command's date plus 11 minutes when the command is an eclipse exit
\* whose most recent entry came less than 125 s after the most recent battery
\* connect before that entry, with no other exit since that entry; reading
\* any other command it leaves the transitions as they were.
C10_spm_eclipse ==
    [][SPMStep =>
          LET x == Len(cmds')
              cmd == cmds'[x]
          IN IF IsExit(cmd) /\ Armed(cmds', x)
             THEN /\ spm'.wrote
                  /\ (cmd.date + 11 * 60) \in DOMAIN spm'.td
                  /\ KV("sun_pos_mon", Str("ENAB"))
                         \in Range(spm'.td[cmd.date + 11 * 60])
                  /\ \A d \in DOMAIN spm.td :
                        d \in DOMAIN spm'.td /\ spm'.td[d] = spm.td[d]
                  /\ DOMAIN spm'.td = DOMAIN spm.td \cup {cmd.date + 11 * 60}
             ELSE /\ ~spm'.wrote
                  /\ spm'.td = spm.td]_vars

\* the whole loop over the commands read gives the transitions of the steps
SPM_loop_agrees == spm.td = SPMEclipse_set_transitions(EmptyTd, cmds)

\* an armed exit has been read and has written, and an exit after it (same
\* entry) has written nothing
C10_witness ==
    /\ Len(cmds) = 4
    /\ IsConnect(cmds[1]) /\ IsEntry(cmds[2]) /\ IsExit(cmds[3]) /\ IsExit(cmds[4])
    /\ cmds[2].date - cmds[1].date < 125
    /\ ~spm.wrote
    /\ DOMAIN spm.td = {cmds[3].date + 660}

-----------------------------------------------------------------------------
(* commands.filter and get_state0 *)

\* the commands table idx_cmds, in time order: a cluster of commands, and
\* 300 days later a maneuver with a mode command 100 s after its start
IdxCmds == <<
    [Cmd(7500, "MP_OBSID", "") EXCEPT !.id = 7],
    [Cmd(7500, "MP_TARGQUAT", "") EXCEPT !.q = 1],
    Cmd(9700, "COMMAND_SW", "AONM2NPE"),
    Cmd(9700, "COMMAND_SW", "AOMANUVR"),
    Cmd(10000, "COMMAND_SW", "4OHETGIN"),
    Cmd(12500, "COMMAND_SW", "AONPMODE"),
    Cmd(15000, "COMMAND_HW", "OTHER"),
    [Cmd(25919900, "MP_TARGQUAT", "") EXCEPT !.q = 4],
    Cmd(25919900, "COMMAND_SW", "AONM2NPE"),
    Cmd(25920000, "COMMAND_SW", "AOMANUVR"),
    Cmd(25920100, "COMMAND_SW", "AONMMODE") >>

\* str.lower() and str.upper() on the words the model's queries and store
\* use: the i-th lower-case word has the i-th upper-case word as its
\* upper-case form; a word in mixed case has a row in MixedWords
LowerWords == <<"type", "tlmsid", "msid", "pos", "idx", "date", "command_sw",
                "simtrans", "aflcrset", "aonpmode">>

UpperWords == <<"TYPE", "TLMSID", "MSID", "POS", "IDX", "DATE", "COMMAND_SW",
                "SIMTRANS", "AFLCRSET", "AONPMODE">>

MixedWords == <<"Type", "Tlmsid", "Msid", "Pos", "Idx", "Date", "Command_sw",
                "Simtrans", "Aflcrset", "Aonpmode">>

WordIndex(w) ==
    IF \E i \in 1..Len(LowerWords) :
          w \in {LowerWords[i], UpperWords[i], MixedWords[i]}
    THEN CHOOSE i \in 1..Len(LowerWords) :
            w \in {LowerWords[i], UpperWords[i], MixedWords[i]}
    ELSE 0

lower(w) == IF WordIndex(w) = 0 THEN w ELSE LowerWords[WordIndex(w)]

upper(w) == IF WordIndex(w) = 0 THEN w ELSE UpperWords[WordIndex(w)]

\* idx_cmds.dtype.names: the flat columns of the commands table
dtype_names == {"idx", "date", "type", "tlmsid"}

\* idx_cmds[key][i] as a value
Column(row, key) ==
    CASE key = "idx" -> Num(row.idx)
      [] key = "date" -> Num(row.date)
      [] key = "type" -> Str(row.type)
      [] key = "tlmsid" -> Str(row.tlmsid)

\* pars.get(key) for pars = dict(pars_tuple): the last pair with the key wins
pars_get(pars_tuple, key) ==
    IF \E i \in 1..Len(pars_tuple) : pars_tuple[i].k = key
    THEN pars_tuple[CHOOSE i \in 1..Len(pars_tuple) :
                       /\ pars_tuple[i].k = key
                       /\ \A j \in (i + 1)..Len(pars_tuple) : pars_tuple[j].k # key].v
    ELSE NoneV

\* the date window with the stop date included
in_window_closed(date, start, stop_) ==
    /\ (start.t # "none" => date >= start.n)
    /\ (stop_.t # "none" => date <= stop_.n)

\* lines 129-132: ok after the two date tests; a bound that is None is skipped
in_window(date, start, stop_) ==
    /\ (start.t # "none" => date >= start.n)
    /\ (stop_.t # "none" => date < stop_.n)

\* lines 141-144: the loop over pars_dict.items()
RECURSIVE pars_loop(_, _, _, _, _)
pars_loop(store, items, key, val, par_ok) ==
    IF items = <<>> THEN par_ok
    ELSE Let(LAMBDA ok1 : pars_loop(store, Tail(items), key, val, ok1),
             IF pars_get(Head(items).pars, key) = val
             THEN [i \in 1..Len(store) |->
                      par_ok[i] \/ store[i].idx = Head(items).idx]
             ELSE par_ok)

\* lines 133-145: one key=val pair of the loop over kwargs.items()
find_kwarg(store, pars, m, kw) ==
    LET key == lower(kw.k)
        val == IF kw.v.t = "str" THEN Str(upper(kw.v.s)) ELSE kw.v
    IN  IF key \in dtype_names
        THEN [m EXCEPT !.ok = [i \in 1..Len(store) |->
                                  m.ok[i] /\ Column(store[i], key) = val]]
        ELSE Let(LAMBDA par_ok :
                    [ok |-> [i \in 1..Len(store) |-> m.ok[i] /\ par_ok[i]],
                     par_ok |-> par_ok],
                 pars_loop(store, pars, key, val,
                           [i \in 1..Len(store) |-> FALSE]))

RECURSIVE kwargs_loop(_, _, _, _)
kwargs_loop(store, pars, m, kwargs) ==
    IF kwargs = <<>> THEN m
    ELSE Let(LAMBDA m1 : kwargs_loop(store, pars, m1, Tail(kwargs)),
             find_kwarg(store, pars, m, Head(kwargs)))

\* idx_cmds[ok]
Masked(store, ok) ==
    LET sel[i \in 0..Len(store)] ==
            IF i = 0 THEN <<>>
            ELSE IF ok[i] THEN Append(sel[i - 1], store[i]) ELSE sel[i - 1]
    IN  sel[Len(store)]

\* _find(start, stop, **kwargs) on the store (idx_cmds, pars_dict)
_find(store, pars, start, stop_, kwargs) ==
    Let(LAMBDA m : Masked(store, m.ok),
        kwargs_loop(store, pars,
                    [ok |-> [i \in 1..Len(store) |->
                                in_window(store[i].date, start, stop_)],
                     par_ok |-> [i \in 1..Len(store) |-> FALSE]],
                    kwargs))

\* commands.filter(start, stop) as get_state0 calls it, without key=val pairs
filter(start, stop_) == _find(IdxCmds, <<>>, Num(start), Num(stop_), <<>>)

\* seconds in a day: DateTime - lookback counts lookback in days
DAY == 86400

\* the lookbacks taken in the order given
sorted_as_given(seq) == seq

\* sorted(seq)
RECURSIVE sorted(_)
sorted(seq) ==
    IF seq = <<>> THEN <<>>
    ELSE Let(LAMBDA r :
                 LET x == seq[Len(seq)]
                     k == Cardinality({i \in 1..Len(r) : r[i] <= x})
                 IN SubSeq(r, 1, k) \o <<x>> \o SubSeq(r, k + 1, Len(r)),
             sorted(SubSeq(seq, 1, Len(seq) - 1)))

\* state0 filled from the last row for the keys it does not have yet
RECURSIVE fill_state0_keep(_, _, _)
fill_state0_keep(st0, colnames, row) ==
    IF colnames = <<>> THEN st0
    ELSE Let(LAMBDA st1 : fill_state0_keep(st1, Tail(colnames), row),
             IF row[Head(colnames)] # NoneV /\ Head(colnames) \notin DOMAIN st0
             THEN (Head(colnames) :> row[Head(colnames)]) @@ st0
             ELSE st0)

\* state0[colname] = states[colname][-1] for the columns whose last value is
\* not None (lines 828-831)
RECURSIVE fill_state0(_, _, _)
fill_state0(st0, colnames, row) ==
    IF colnames = <<>> THEN st0
    ELSE Let(LAMBDA st1 : fill_state0(st1, Tail(colnames), row),
             IF row[Head(colnames)] # NoneV
             THEN (Head(colnames) :> row[Head(colnames)]) @@ st0
             ELSE st0)

\* the loop over state_keys for one lookback (lines 815-831); r = [state0, err]
RECURSIVE key_loop(_, _, _, _, _)
key_loop(r, keys, cs, ord, n) ==
    IF keys = <<>> \/ r.err # "" THEN r
    ELSE Let(LAMBDA r1 : key_loop(r1, Tail(keys), cs, ord, n),
             IF Head(keys) \in DOMAIN r.state0 THEN r
             ELSE Let(LAMBDA g :
                          IF g.err = "NoTransitionsError" THEN r
                          ELSE IF g.err # "" THEN [r EXCEPT !.err = g.err]
                          ELSE [r EXCEPT !.state0 =
                                   fill_state0(@, SubSeq(g.table.names, 3,
                                                         Len(g.table.names)),
                                               Last(g.table.rows))],
                      get_states_for_cmds(cs, <<Head(keys)>>, <<>>, ord, n)))

\* state_keys of get_state0 after the None default
s0_keys(keys) == IF keys = NoKeys THEN STATE_KEYS ELSE keys

\* one iteration of the loop over lookbacks (lines 812-836): [state0, err, done]
lookback_step(st0, date, keys, lookback, ord, n) ==
    Let(LAMBDA r : [state0 |-> r.state0, err |-> r.err,
                    done |-> r.err = "" /\ Range(s0_keys(keys)) \subseteq DOMAIN r.state0],
        key_loop([state0 |-> st0, err |-> ""], s0_keys(keys),
                 filter(date - lookback * DAY, date), ord, n))

\* the else branch of the loop (lines 837-851): no class declares a
\* default_value, so the missing keys stay missing; [state0, err, msg]
lookbacks_exhausted(st0, keys, lbs) ==
    LET missing_keys == Range(s0_keys(keys)) \ DOMAIN st0
    IN IF missing_keys = {} THEN [state0 |-> st0, err |-> "", msg |-> <<>>]
       ELSE IF lbs = <<>> THEN [state0 |-> st0, err |-> "IndexError", msg |-> <<>>]
       ELSE [state0 |-> st0, err |-> "ValueError",
             msg |-> <<[missing_keys |-> missing_keys, days |-> Last(lbs)]>>]

\* the loop over the sorted lookbacks lbs from place i on
RECURSIVE lookback_loop(_, _, _, _, _, _, _)
lookback_loop(st0, date, keys, lbs, i, ord, n) ==
    IF i > Len(lbs) THEN lookbacks_exhausted(st0, keys, lbs)
    ELSE Let(LAMBDA r :
                 IF r.err # "" THEN [state0 |-> r.state0, err |-> r.err, msg |-> <<>>]
                 ELSE IF r.done THEN [state0 |-> r.state0, err |-> "", msg |-> <<>>]
                 ELSE lookback_loop(r.state0, date, keys, lbs, i + 1, ord, n),
             lookback_step(st0, date, keys, lbs[i], ord, n))

\* get_state0(date, state_keys, lookbacks): [state0, err, msg]
get_state0(date, keys, lbs, ord, n) ==
    lookback_loop(<<>>, date, keys, sorted(lbs), 1, ord, n)

-----------------------------------------------------------------------------
(* Specification SpecState0: one call of get_state0, a lookback per step *)

\* the lookbacks (days) the lookbacks argument is made of
LookbackDays == {7, 30, 180}

\* the sequences without repetition over the set S
Orderings(S) ==
    UNION {{q \in [1..m -> S] : \A i, j \in 1..m : i # j => q[i] # q[j]} :
           m \in 0..Cardinality(S)}

\* the dates asked about: before every command, inside the first cluster,
\* with the 7-day window starting inside the first cluster, 100 days after
\* the first cluster, and with the 7-day window starting 50 s after the
\* maneuver command of the second cluster (day 300)
State0Dates ==
    {5000, 12500, 10000 + 7 * DAY, 15001 + 100 * DAY, 307 * DAY + 50}

State0KeyChoices ==
    {<<"hetg">>, <<"obsid", "hetg">>, <<"letg", "hetg">>, <<"pitch">>,
     <<"hetg", "pitch">>, <<"pcad_mode", "q1">>}

\* largest number of attitudes of a maneuver in get_state0
MaxS0Atts == 2

State0Init ==
    /\ pc = "start"
    /\ s0date \in State0Dates
    /\ req \in State0KeyChoices
    /\ lookbacks \in Orderings(LookbackDays)
    /\ order \in ClassOrders
    /\ natts \in 1..MaxS0Atts
    /\ s0 = <<>> /\ queried = <<>> /\ msg = <<>>
    /\ err = "" /\ transitions = <<>> /\ idx = 0 /\ cmds = <<>>
    /\ IdleFold /\ IdleReduce /\ IdleAdd /\ IdleSPM /\ IdleMore

\* the next lookback of the sorted list: commands are fetched for it and the
\* keys still missing are looked for in them
S0Lookback ==
    /\ pc \in {"start", "loop"}
    /\ Len(queried) < Len(lookbacks)
    /\ \E lookback \in {sorted(lookbacks)[Len(queried) + 1]} :
          /\ queried' = Append(queried, lookback)
          /\ cmds' = filter(s0date - lookback * DAY, s0date)
          /\ \E r \in {lookback_step(s0, s0date, req, lookback, order, natts)} :
                /\ s0' = r.state0
                /\ err' = r.err
                /\ pc' = IF r.err # "" THEN "raised"
                         ELSE IF r.done THEN "returned"
                         ELSE "loop"
    /\ UNCHANGED <<req, state0, order, state_keys, transitions, idx, states,
                   datestarts, table, warned, log, reduceVars, newt, spm,
                   s0date, lookbacks, natts, msg, moreVars>>

\* the lookbacks are used up: defaults, then the error or the return
S0Exhausted ==
    /\ pc \in {"start", "loop"}
    /\ Len(queried) = Len(lookbacks)
    /\ \E r \in {lookbacks_exhausted(s0, req, sorted(lookbacks))} :
          /\ s0' = r.state0
          /\ err' = r.err
          /\ msg' = r.msg
          /\ pc' = IF r.err # "" THEN "raised" ELSE "returned"
    /\ UNCHANGED <<cmds, req, state0, order, state_keys, transitions, idx, states,
                   datestarts, table, warned, log, reduceVars, newt, spm,
                   s0date, lookbacks, queried, natts, moreVars>>

State0Next == S0Lookback \/ S0Exhausted

SpecState0 == State0Init /\ [][State0Next]_vars

\* C6: get_state0 ends either returning a mapping with a value for every
\* requested key, or raising the error that names exactly the requested
\* keys left unresolved and the largest lookback
C6_state0_complete ==
    /\ pc = "returned" => Range(req) \subseteq DOMAIN s0
    /\ pc = "raised" =>
          /\ err = "ValueError"
          /\ msg = <<[missing_keys |-> Range(req) \ DOMAIN s0,
                      days |-> CHOOSE d \in Range(lookbacks) :
                                  \A e \in Range(lookbacks) : e <= d]>>

\* C7: get_state0 fetches commands for the lookbacks in ascending order, once
\* each, whatever order they were given in; it goes on to the next lookback
\* only while a requested key is unresolved, so no lookback beyond the first
\* that resolves every key is fetched; and the outcome is the same for every
\* ordering of the lookbacks argument.
C7_lookback_order ==
    /\ \A i \in 1..Len(queried) :
          /\ queried[i] \in Range(lookbacks)
          /\ \A j \in 1..(i - 1) : queried[j] < queried[i]
          /\ \A d \in Range(lookbacks) :
                d < queried[i] => \E j \in 1..(i - 1) : queried[j] = d
    /\ (pc = "loop" => ~(Range(req) \subseteq DOMAIN s0))
    /\ (pc \in {"returned", "raised"} =>
           \A q \in Orderings(Range(lookbacks)) :
              Len(q) = Len(lookbacks) =>
                 get_state0(s0date, req, q, order, natts)
                     = [state0 |-> s0, err |-> err, msg |-> msg])

\* get_state0 given the lookbacks 180, 7, 30 has returned after fetching for
\* 7 and for 30 days only
C7_witness ==
    /\ pc = "returned"
    /\ lookbacks = <<180, 7, 30>>
    /\ queried = <<7, 30>>
    /\ Range(req) \subseteq DOMAIN s0

\* the commands of the archive dated from the start of the last lookback
\* fetched to the target date, the target date itself taken (closed) or not
InLookback(closed) ==
    SelectSeq(IdxCmds,
              LAMBDA c : /\ c.date >= s0date - Last(queried) * DAY
                         /\ IF closed THEN c.date <= s0date
                            ELSE c.date < s0date)

\* C27: for each lookback get_state0 resolves state from exactly the
\* commands dated in the closed interval [date - lookback, date], a command
\* dated at the target date included
C27_closed_window ==
    queried # <<>> => cmds = InLookback(TRUE)

\* C27 as the code has it: the commands are those dated in the half-open
\* interval [date - lookback, date), so a command dated at the target date
\* is not among them, while one dated at date - lookback is
C27_half_open_window ==
    queried # <<>> =>
        /\ cmds = InLookback(FALSE)
        /\ \A c \in Range(cmds) : c.date # s0date

\* the state at the date of the AONPMODE command was asked for: the commands
\* before it were fetched, that command was not
C27_witness ==
    /\ queried # <<>>
    /\ s0date = 12500
    /\ \E c \in Range(IdxCmds) : c.date = s0date /\ c.tlmsid = "AONPMODE"
    /\ Len(cmds) = 5
    /\ \A c \in Range(cmds) : c.date < 12500

\* C28: a lookback whose window holds no transition for a requested key,
\* be the window empty and the key a PCAD key, does not end get_state0: the
\* step raises nothing, leaves that key unresolved and the call goes on with
\* the other keys and the next lookback
C28_window_recovered ==
    [][S0Lookback =>
          /\ err' = ""
          /\ pc' \in {"loop", "returned"}
          /\ \A k \in Range(s0_keys(req)) \ DOMAIN s0 :
                get_transitions_list(cmds', expand_state_keys(<<k>>, order),
                                     order) = <<>>
                    => k \notin DOMAIN s0']_vars

-----------------------------------------------------------------------------
(* commands.filter with key=val pairs *)

MaxKwargs == 2

\* a store as update_cmds writes it: commands in date order, each with the
\* idx of its parameter tuple; parameter names in lower case, string
\* parameter values in upper case
StoreCmds == <<
    [idx |-> 0, date |-> 100, type |-> "COMMAND_SW", tlmsid |-> "AONPMODE"],
    [idx |-> 1, date |-> 200, type |-> "COMMAND_SW", tlmsid |-> "AFLCRSET"],
    [idx |-> 2, date |-> 200, type |-> "SIMTRANS", tlmsid |-> "None"],
    [idx |-> 1, date |-> 300, type |-> "COMMAND_SW", tlmsid |-> "AFLCRSET"],
    [idx |-> 3, date |-> 400, type |-> "SIMTRANS", tlmsid |-> "None"],
    [idx |-> 4, date |-> 400, type |-> "COMMAND_HW", tlmsid |-> "AFLCRSET"] >>

StorePars == <<
    [pars |-> <<>>, idx |-> 0],
    [pars |-> <<KV("msid", Str("AFLCRSET")), KV("scs", Num(5))>>, idx |-> 1],
    [pars |-> <<KV("pos", Num(5))>>, idx |-> 2],
    [pars |-> <<KV("pos", Num(7))>>, idx |-> 3],
    [pars |-> <<KV("msid", Str("AFLCRSET")), KV("pos", Num(7))>>, idx |-> 4] >>

FilterDates == {NoneV, Num(100), Num(200), Num(400), Num(500)}

KwChoices == {KV("type", Str("command_sw")), KV("TYPE", Str("SIMTRANS")),
              KV("tlmsid", Str("Aflcrset")), KV("MSID", Str("aflcrset")),
              KV("msid", Str("AONPMODE")), KV("Pos", Num(5)),
              KV("pos", Num(7)), KV("idx", Num(1))}

\* **kwargs: up to MaxKwargs pairs with different keywords
KwargsChoices ==
    {kw \in UNION {[1..n -> KwChoices] : n \in 0..MaxKwargs} :
        \A i, j \in 1..Len(kw) : i # j => kw[i].k # kw[j].k}

FilterInit ==
    /\ pc = "start"
    /\ idx_cmds = StoreCmds /\ pars_dict = StorePars
    /\ \E a, b \in FilterDates, kw \in KwargsChoices :
          query = [start |-> a, stop |-> b, kwargs |-> kw]
    /\ found = <<>>
    /\ err = "" /\ transitions = <<>> /\ idx = 0
    /\ cmds = <<>> /\ req = NoKeys /\ order = RegistrationOrder
    /\ IdleFold /\ IdleReduce /\ IdleAdd /\ IdleSPM /\ IdleState0 /\ IdleEvents
    /\ IdleSun /\ IdleRegistry

\* found = commands.filter(start, stop, **kwargs)
Filter ==
    /\ pc = "start"
    /\ found' = _find(idx_cmds, pars_dict, query.start, query.stop, query.kwargs)
    /\ pc' = "returned"
    /\ UNCHANGED <<cmds, req, state0, order, foldVars, table, reduceVars, newt,
                   spm, state0Vars, idx_cmds, pars_dict, query, eventVars, sunwin,
                   regVars>>

SpecFilter == FilterInit /\ [][Filter]_vars

\* the parameter tuples that pars_dict maps to the idx of a command
ParsOf(c) == {pars_dict[j].pars : j \in {i \in 1..Len(pars_dict) :
                                            pars_dict[i].idx = c.idx}}

\* the command satisfies the predicate key=val
Satisfies(c, kw) ==
    LET key == lower(kw.k)
        val == IF kw.v.t = "str" THEN Str(upper(kw.v.s)) ELSE kw.v
    IN  IF key \in {"idx", "date", "type", "tlmsid"}
        THEN Column(c, key) = val
        ELSE \E pars \in ParsOf(c) : KV(key, val) \in Range(pars)

Selected(c) ==
    /\ (query.start # NoneV => query.start.n <= c.date)
    /\ (query.stop # NoneV => c.date < query.stop.n)
    /\ \A i \in 1..Len(query.kwargs) : Satisfies(c, query.kwargs[i])

\* C11: filter(start, stop, **attrs) returns, in store order, exactly the
\* commands of the store with start <= date < stop (a missing bound is open)
\* that satisfy every key=val pair: a flat column is compared with the value
\* (strings in upper case), any other key is looked up in the parameter tuple
\* of the command's idx; the store is left as it was
C11_filter ==
    pc = "returned" =>
        /\ found = SelectSeq(idx_cmds, Selected)
        /\ idx_cmds = StoreCmds /\ pars_dict = StorePars

\* a query with an open start, a flat column and a parameter key given in
\* another case than the store's, which selects some commands but not all
C11_witness ==
    /\ pc = "returned"
    /\ query.start = NoneV /\ query.stop = Num(400)
    /\ query.kwargs = <<KV("type", Str("command_sw")), KV("MSID", Str("aflcrset"))>>
    /\ Len(found) = 2

-----------------------------------------------------------------------------
(* The events database updater (src/events/update_events.py) *)

MaxNow == 3

\* the event models: name, lookback and the foreign rows of one event
\* (event['foreign'] = {class_name: rows}; an event without the key has none)
EventModels == <<
    [name |-> "manvr", lookback |-> 1,
     foreign |-> <<[class_name |-> "ManvrSeq", row |-> "a"],
                   [class_name |-> "ManvrSeq", row |-> "b"]>>],
    [name |-> "obsid", lookback |-> 2, foreign |-> <<>>] >>

\* EventModel.get_events(start, stop): a list of events of the interval, as
\* dicts, in time order; which of the times 1..MaxNow telemetry shows an
\* event at may differ from call to call
get_events(EventModel, start, stop_) ==
    {[k \in 1..Len(times) |-> [start |-> times[k], foreign |-> EventModel.foreign]] :
        times \in {Ascending(S) :
                      S \in SUBSET {u \in 1..MaxNow : start <= u /\ u <= stop_}}}

\* the tables of the database hold rows without an order: row -> count
Count(tbl, row) == IF row \in DOMAIN tbl THEN tbl[row] ELSE 0

Save(tbl, row) ==
    [r \in DOMAIN tbl \cup {row} |-> IF r = row THEN Count(tbl, r) + 1 ELSE tbl[r]]

\* the lookup that finds no stored event
objects_get_none(tbl, name, start) == FALSE

\* lines 60-66: EventModel.objects.get(start=event['start']) finds a row
objects_get(tbl, name, start) == Count(tbl, [name |-> name, start |-> start]) > 0

\* lines 73-82: the foreign rows of one event are saved
RECURSIVE save_foreign(_, _, _, _)
save_foreign(tbl, name, start, rows) ==
    IF rows = <<>> THEN tbl
    ELSE Let(LAMBDA tbl1 : save_foreign(tbl1, name, start, Tail(rows)),
             Save(tbl, [class_name |-> Head(rows).class_name, name |-> name,
                        start |-> start, row |-> Head(rows).row]))

\* lines 58-82: the loop over the events, on db = [events, foreign, added]
RECURSIVE events_loop(_, _, _)
events_loop(db, name, evs) ==
    IF evs = <<>> THEN db
    ELSE Let(LAMBDA db1 : events_loop(db1, name, Tail(evs)),
             IF objects_get(db.events, name, Head(evs).start)
             THEN db
             ELSE [events |-> Save(db.events,
                                   [name |-> name, start |-> Head(evs).start]),
                   foreign |-> save_foreign(db.foreign, name, Head(evs).start,
                                            Head(evs).foreign),
                   added |-> db.added + 1])

\* lines 45-52: the start of the processing interval
date_start(upd, name, date_now) == IF upd[name] # 0 THEN upd[name] ELSE date_now

EventNames == {EventModels[i].name : i \in 1..Len(EventModels)}

EventsInit ==
    /\ pc = "start"
    /\ events = <<>> /\ foreign = <<>>
    /\ updates = [n \in EventNames |-> 0]
    /\ fetched = <<>>
    /\ err = "" /\ transitions = <<>> /\ idx = 0
    /\ cmds = <<>> /\ req = NoKeys /\ order = RegistrationOrder
    /\ IdleFold /\ IdleReduce /\ IdleAdd /\ IdleSPM /\ IdleState0 /\ IdleFilter
    /\ IdleSun /\ IdleRegistry

\* update(EventModel, date_now): the transaction commits and the Update row
\* is saved
Update ==
    /\ \E i \in 1..Len(EventModels), date_now \in 1..MaxNow :
          /\ date_now >= updates[EventModels[i].name]
          /\ \E evs \in get_events(EventModels[i],
                                date_start(updates, EventModels[i].name, date_now)
                                    - EventModels[i].lookback,
                                date_now) :
             \E db \in {events_loop([events |-> events, foreign |-> foreign,
                                     added |-> 0], EventModels[i].name, evs)} :
                /\ events' = db.events
                /\ foreign' = db.foreign
                /\ updates' = [updates EXCEPT ![EventModels[i].name] = date_now]
                /\ fetched' = [name |-> EventModels[i].name, events |-> evs,
                               added |-> db.added]
    /\ err' = ""
    /\ UNCHANGED <<pc, cmds, req, state0, order, state_keys, transitions, idx,
                   states, datestarts, table, warned, log, reduceVars, newt,
                   spm, state0Vars, filterVars, sunwin, regVars>>

\* update(EventModel, date_now): an exception inside the transaction (from
\* from_dict, getattr or save) rolls it back, and update.save() is not reached
UpdateFails ==
    /\ \E i \in 1..Len(EventModels), date_now \in 1..MaxNow :
          /\ date_now >= updates[EventModels[i].name]
          /\ \E evs \in get_events(EventModels[i],
                                date_start(updates, EventModels[i].name, date_now)
                                    - EventModels[i].lookback,
                                date_now) :
             /\ evs # <<>>
             /\ fetched' = [name |-> EventModels[i].name, events |-> evs,
                            added |-> 0]
    /\ err' = "Exception"
    /\ UNCHANGED <<pc, cmds, req, state0, order, state_keys, transitions, idx,
                   states, datestarts, table, warned, log, reduceVars, newt,
                   spm, state0Vars, filterVars, events, foreign, updates, sunwin,
                   regVars>>

EventsNext == Update \/ UpdateFails

SpecEvents == EventsInit /\ [][EventsNext]_vars

\* every event the last call got from get_events was stored before the call
AllStored ==
    \A k \in 1..Len(fetched'.events) :
        Count(events, [name |-> fetched'.name,
                       start |-> fetched'.events[k].start]) > 0

\* C12: after any sequence of update runs the store holds at most one event
\* of a model for a start value, and a run all of whose events are already
\* stored adds no event and no foreign row
C12_update_idempotent ==
    [][/\ \A row \in DOMAIN events' : events'[row] <= 1
       /\ AllStored => events' = events /\ foreign' = foreign]_vars

\* a committed run over a window whose events, one of them with foreign
\* rows, were stored by earlier runs
C12_witness ==
    /\ fetched # <<>> /\ err = ""
    /\ fetched.name = "manvr" /\ Len(fetched.events) = 2
    /\ fetched.added = 0
    /\ \E row \in DOMAIN events : row.name = "obsid"

-----------------------------------------------------------------------------
(* Sun-vector sample times of two windows *)

\* start and stop dates of the windows: on and off the 10000 s grid
SunDates == {9000, 10000, 12000, 20000, 25000, 30000, 39999, 40000}

SunWindows == {w \in [start : SunDates, stop : SunDates] : w.start < w.stop}

SunInit ==
    /\ pc = "start"
    /\ \E w1, w2 \in SunWindows :
          sunwin = [w1 |-> w1, w2 |-> w2, dates1 |-> <<>>, dates2 |-> <<>>]
    /\ err = "" /\ transitions = <<>> /\ idx = 0
    /\ cmds = <<>> /\ req = NoKeys /\ order = RegistrationOrder
    /\ IdleFold /\ IdleReduce /\ IdleAdd /\ IdleSPM /\ IdleState0 /\ IdleFilter
    /\ IdleEvents /\ IdleRegistry

\* the dates of the transitions add_sun_vector_transitions adds to an empty list
sun_dates(w) ==
    Let(LAMBDA list : [k \in 1..Len(list) |-> list[k].date],
        add_sun_vector_transitions(w.start, w.stop, <<>>))

\* add_sun_vector_transitions is run for both windows
SunSample ==
    /\ pc = "start"
    /\ sunwin' = [sunwin EXCEPT !.dates1 = sun_dates(sunwin.w1),
                                !.dates2 = sun_dates(sunwin.w2)]
    /\ pc' = "returned"
    /\ UNCHANGED <<cmds, req, state0, order, foldVars, table, reduceVars, newt,
                   spm, state0Vars, filterVars, eventVars, regVars>>

SpecSun == SunInit /\ [][SunSample]_vars

\* the multiples of 10000 s from the last one at or before w.start up to,
\* but without, w.stop
GridTimes(w) ==
    {t \in {k * 10000 : k \in 0..4} : t > w.start - 10000 /\ t < w.stop}

Increasing(seq) == \A i, j \in 1..Len(seq) : i < j => seq[i] < seq[j]

\* C13: the sun-vector sample times of a window are exactly the multiples of
\* 10000 s in [floor(start / 10000) * 10000, stop), so the samples of two
\* overlapping windows that lie in both sampled ranges are the same
C13_sun_samples ==
    pc = "returned" =>
        /\ Range(sunwin.dates1) = GridTimes(sunwin.w1)
        /\ Range(sunwin.dates2) = GridTimes(sunwin.w2)
        /\ Increasing(sunwin.dates1) /\ Increasing(sunwin.dates2)
        /\ \A t \in Range(sunwin.dates1) \cup Range(sunwin.dates2) :
              /\ t > sunwin.w1.start - 10000 /\ t > sunwin.w2.start - 10000
              /\ t < sunwin.w1.stop /\ t < sunwin.w2.stop
              => t \in Range(sunwin.dates1) /\ t \in Range(sunwin.dates2)

\* two overlapping windows with different start and stop dates off the grid
C13_witness ==
    /\ pc = "returned"
    /\ sunwin.w1 = [start |-> 12000, stop |-> 39999]
    /\ sunwin.w2 = [start |-> 25000, stop |-> 40000]
    /\ sunwin.dates1 = <<10000, 20000, 30000>>
    /\ sunwin.dates2 = <<20000, 30000>>

-----------------------------------------------------------------------------
(* Registration of the transition classes (TransitionMeta) *)

MaxClasses == 3

\* class statements: the base classes, which set no state_keys, and some of
\* the transition classes; own tells whether the class body sets state_keys
ClassPool ==
    {[name |-> n, own |-> FALSE, state_keys |-> <<>>] :
        n \in {"BaseTransition", "SingleFixedTransition"}}
    \cup {[name |-> RuleClasses[i].name, own |-> TRUE,
           state_keys |-> RuleClasses[i].state_keys] : i \in {1, 2, 7, 13, 15}}

\* the class a statement creates: its state_keys attribute is its own or,
\* without one, that of its base class (base = 0: no declared base)
NewClass(stmt, base, classes) ==
    IF stmt.own THEN [name |-> stmt.name, has |-> TRUE,
                      state_keys |-> stmt.state_keys]
    ELSE IF base = 0 THEN [name |-> stmt.name, has |-> FALSE, state_keys |-> <<>>]
    ELSE [name |-> stmt.name, has |-> classes[base].has,
          state_keys |-> classes[base].state_keys]

\* STATE_KEYS.append(state_key) without the membership test
append_always(keys, state_key) == Append(keys, state_key)

\* lines 72-73
append_new(keys, state_key) ==
    IF state_key \notin Range(keys) THEN Append(keys, state_key) ELSE keys

\* line 74: TRANSITIONS[state_key].append(cls) on a defaultdict(list)
defaultdict_append(dict, state_key, cls) ==
    [x \in DOMAIN dict \cup {state_key} |->
        IF x # state_key THEN dict[x]
        ELSE IF state_key \in DOMAIN dict THEN Append(dict[state_key], cls)
        ELSE <<cls>>]

\* lines 71-74: the loop over cls.state_keys
RECURSIVE register_keys(_, _, _)
register_keys(reg, cls, keys) ==
    IF keys = <<>> THEN reg
    ELSE Let(LAMBDA reg1 : register_keys(reg1, cls, Tail(keys)),
             [reg EXCEPT !.STATE_KEYS = append_new(reg.STATE_KEYS, Head(keys)),
                         !.TRANSITIONS = defaultdict_append(reg.TRANSITIONS,
                                                            Head(keys), cls)])

\* TransitionMeta.__new__ for the class with identity cls
TransitionMeta_new(reg, cls, class) ==
    IF class.has
    THEN Let(LAMBDA reg1 : [reg1 EXCEPT !.TRANSITION_CLASSES = @ \cup {cls}],
             register_keys(reg, cls, class.state_keys))
    ELSE reg

RegistryInit ==
    /\ pc = "start"
    /\ registry = [STATE_KEYS |-> <<>>, TRANSITIONS |-> <<>>,
                   TRANSITION_CLASSES |-> {}]
    /\ declared = <<>>
    /\ err = "" /\ transitions = <<>> /\ idx = 0
    /\ cmds = <<>> /\ req = NoKeys /\ order = RegistrationOrder
    /\ IdleFold /\ IdleReduce /\ IdleAdd /\ IdleSPM /\ IdleState0 /\ IdleFilter
    /\ IdleEvents /\ IdleSun

\* a class statement runs: the class is created and the metaclass registers it
Register ==
    /\ Len(declared) < MaxClasses
    /\ \E stmt \in ClassPool, base \in 0..Len(declared) :
          \E class \in {NewClass(stmt, base, declared)} :
             /\ (stmt.own => base = 0)
             /\ declared' = Append(declared, class)
             /\ registry' = TransitionMeta_new(registry, Len(declared) + 1, class)
    /\ UNCHANGED <<pc, cmds, req, state0, order, foldVars, table, reduceVars,
                   newt, spm, state0Vars, filterVars, eventVars, sunwin>>

SpecRegistry == RegistryInit /\ [][Register]_vars

\* the classes with a state_keys attribute, and the place a key is first
\* declared at (class by class, key by key)
Rules == {i \in 1..Len(declared) : declared[i].has}

Declares(i, k) == i \in Rules /\ k \in Range(declared[i].state_keys)

FirstSeen(k) ==
    LET i == CHOOSE c \in Rules :
                 Declares(c, k) /\ \A d \in Rules : Declares(d, k) => c <= d
        j == CHOOSE n \in 1..Len(declared[i].state_keys) :
                 /\ declared[i].state_keys[n] = k
                 /\ \A o \in 1..(n - 1) : declared[i].state_keys[o] # k
    IN  <<i, j>>

Before(p, q) == p[1] < q[1] \/ (p[1] = q[1] /\ p[2] < q[2])

\* C14: after the registration of any sequence of rules STATE_KEYS holds
\* every declared state key once, in first-seen order, TRANSITIONS[k] holds a
\* rule if and only if the rule declares k, and TRANSITION_CLASSES holds
\* every registered rule
C14_registry ==
    /\ Range(registry.STATE_KEYS) = {k \in UNION {Range(declared[i].state_keys) :
                                                     i \in Rules} : TRUE}
    /\ \A a, b \in 1..Len(registry.STATE_KEYS) :
          a < b => /\ registry.STATE_KEYS[a] # registry.STATE_KEYS[b]
                   /\ Before(FirstSeen(registry.STATE_KEYS[a]),
                             FirstSeen(registry.STATE_KEYS[b]))
    /\ DOMAIN registry.TRANSITIONS = Range(registry.STATE_KEYS)
    /\ \A k \in DOMAIN registry.TRANSITIONS, i \in 1..Len(declared) :
          i \in Range(registry.TRANSITIONS[k]) <=> Declares(i, k)
    /\ registry.TRANSITION_CLASSES = Rules

\* a base class, then two rules that share their state keys
C14_witness ==
    /\ Len(declared) = 3
    /\ ~declared[1].has
    /\ declared[2].name = "NPM_Transition" /\ declared[3].name = "NPM_Transition"
    /\ Len(registry.STATE_KEYS) = Len(PCAD_STATE_KEYS)
    /\ registry.TRANSITIONS["pitch"] = <<2, 3>>

-----------------------------------------------------------------------------
(* Specification SpecAcis: get_states_for_cmds for ACIS packet commands *)

\* most commands of a call
MaxAcis == 2

\* spacing of the command dates (seconds)
AcisStep == 100

\* an ACIS packet command of each kind, one that matches no case of the rule
\* (RS_0000001), and a hardware command that has the tlmsid of a packet
AcisChoices ==
    {Cmd(0, "ACISPKT", t) : t \in ACIS_TLMSIDS}
    \cup {Cmd(0, "COMMAND_HW", "WSVIDALLDN")}

AcisState0Choices ==
    {<<>>,
     [k \in Range(ACIS_STATE_KEYS) |->
         IF k \in {"power_cmd", "si_mode"} THEN Str("?") ELSE Num(9)]}

AcisInit ==
    /\ pc = "start"
    /\ \E m \in 0..MaxAcis : \E cs \in [1..m -> AcisChoices] :
          cmds = [i \in 1..m |-> [cs[i] EXCEPT !.date = i * AcisStep]]
    /\ req = <<"si_mode">>
    /\ state0 \in AcisState0Choices
    /\ order \in ClassOrders
    /\ state_keys = <<>> /\ transitions = <<>> /\ idx = 0 /\ states = <<>>
    /\ datestarts = <<>> /\ table = NoTable /\ err = "" /\ warned = {}
    /\ log = <<>>
    /\ IdleReduce /\ IdleAdd /\ IdleSPM /\ IdleState0 /\ IdleMore

SpecAcis == AcisInit /\ [][FoldNext]_vars

\* what the ACIS rule is to write for a packet command with the tlmsid: the
\* keys with the values that are stated (the decoded counts of WSPOW are
\* left open: value NoneV here); with_power tells whether the three
\* single-purpose power commands write power_cmd too
AcisWrites(tlmsid, with_power) ==
    LET power == IF with_power THEN {KV("power_cmd", Str(tlmsid))} ELSE {}
    IN  CASE tlmsid \in {"WSPOW00000", "WSPOW0CF3F"} ->
                 {KV(k, NoneV) : k \in {"fep_count", "ccd_count", "vid_board",
                                        "clocking"}}
                 \cup {KV("power_cmd", Str(tlmsid))}
          [] tlmsid \in {"XCZ0000005", "XTZ0000005"} ->
                 {KV("clocking", Num(1)), KV("power_cmd", Str(tlmsid))}
          [] tlmsid = "WSVIDALLDN" -> {KV("vid_board", Num(0))} \cup power
          [] tlmsid = "AA00000000" -> {KV("clocking", Num(0))} \cup power
          [] tlmsid = "WSFEPALLUP" -> {KV("fep_count", Num(6))} \cup power
          [] tlmsid = "WC00237014" -> {KV("si_mode", Str("CC_00237"))}
          [] tlmsid = "WT00C62A" -> {KV("si_mode", Str("TE_00C62"))}
          [] OTHER -> {}

\* the transitions of the list and the rows of the table are those of the
\* packet commands: a transition at the date of each packet command with
\* something to write, holding exactly those keys (and the stated values);
\* in the returned table the other keys of its row are those of the row
\* before (of state0, else None, in the first row)
AcisFrame(with_power) ==
    pc \in {"loop", "returned"} =>
        /\ \A i \in 1..Len(cmds) :
              LET w == IF cmds[i].type = "ACISPKT"
                       THEN AcisWrites(cmds[i].tlmsid, with_power) ELSE {}
                  at == {j \in 1..Len(transitions) :
                            transitions[j].date = cmds[i].date}
              IN  IF w = {} THEN at = {}
                  ELSE /\ Cardinality(at) = 1
                       /\ \A j \in at :
                             /\ {it.k : it \in Range(transitions[j].items)}
                                   = {x.k : x \in w}
                             /\ \A it \in Range(transitions[j].items) :
                                   it \in w \/ KV(it.k, NoneV) \in w
        /\ pc = "returned" =>
              \A r \in 1..Len(table.rows) : \A i \in 1..Len(cmds) :
                 cmds[i].date = table.datestart[r] =>
                    \A k \in Range(ACIS_STATE_KEYS) :
                       IF \E x \in AcisWrites(cmds[i].tlmsid, with_power) : x.k = k
                       THEN KV(k, table.rows[r][k])
                                \in AcisWrites(cmds[i].tlmsid, with_power)
                            \/ KV(k, NoneV)
                                \in AcisWrites(cmds[i].tlmsid, with_power)
                       ELSE table.rows[r][k] =
                               IF r > 1 THEN table.rows[r - 1][k]
                               ELSE IF k \in DOMAIN state0 THEN state0[k]
                               ELSE NoneV

\* C29: for each ACISPKT command the ACIS rule writes at the command's date
\* exactly the keys listed for the first matching case and leaves the other
\* ACIS keys as they are: WSVIDALLDN only vid_board=0, AA00000000 only
\* clocking=0, WSFEPALLUP only fep_count=6; a command that matches no case
\* gives no transition
C29_acis_listed_keys == AcisFrame(FALSE)

\* C29 as the code has it: WSVIDALLDN, AA00000000 and WSFEPALLUP write
\* power_cmd = tlmsid as well, like WSPOW* and XCZ0000005 / XTZ0000005
C29_acis_keys == AcisFrame(TRUE)

\* WSVIDALLDN after WT00C62A, with a state0: the second row has vid_board 0
\* and power_cmd WSVIDALLDN, keeps si_mode TE_00C62 of the first row and the
\* clocking of state0
C29_witness ==
    /\ pc = "returned"
    /\ Len(cmds) = 2
    /\ cmds[1].tlmsid = "WT00C62A" /\ cmds[1].type = "ACISPKT"
    /\ cmds[2].tlmsid = "WSVIDALLDN" /\ cmds[2].type = "ACISPKT"
    /\ Len(table.rows) = 2
    /\ table.rows[1]["si_mode"] = Str("TE_00C62")
    /\ table.rows[1]["vid_board"] = Num(9)
    /\ table.rows[2]["si_mode"] = Str("TE_00C62")
    /\ table.rows[2]["vid_board"] = Num(0)
    /\ table.rows[2]["power_cmd"] = Str("WSVIDALLDN")
    /\ table.rows[2]["clocking"] = Num(9)


\* ---------------------------------------------------------------------------
\* The state keys of a call: any one key of a cluster asks for the cluster
\* ---------------------------------------------------------------------------

\* most commands of one call, unless the call gets the whole pool
MaxKeysCmds == 1

\* one command for each PCAD rule, and commands of other rules
KeysPool == <<
    [Cmd(7500, "MP_TARGQUAT", "") EXCEPT !.q = 1],
    Cmd(9000, "COMMAND_SW", "AONM2NPE"),
    Cmd(9500, "COMMAND_SW", "AONMMODE"),
    Cmd(9700, "COMMAND_SW", "AOMANUVR"),
    Cmd(11000, "COMMAND_SW", "AONSMSAF"),
    Cmd(12500, "COMMAND_SW", "AONPMODE"),
    Cmd(13000, "COMMAND_SW", "AONM2NPD"),
    Cmd(14000, "COMMAND_SW", "4OHETGIN"),
    [Cmd(15000, "MP_OBSID", "") EXCEPT !.id = 7],
    Cmd(16000, "ACISPKT", "WSVIDALLDN") >>

\* each PCAD key alone, a key of each other cluster alone, keys of two
\* clusters, a key no rule declares next to one a rule declares, and no keys
KeysReqChoices ==
    {<<k>> : k \in Range(PCAD_STATE_KEYS)}
    \cup {<<"hetg">>, <<"letg">>, <<"simpos">>, <<"simfa_pos">>, <<"obsid">>,
          <<"sun_pos_mon">>, <<"dither">>, <<"dither_phase_yaw">>,
          <<"si_mode">>}
    \cup {<<"hetg", "q3">>, <<"roll", "ra">>, <<"obsid", "off_nominal_roll">>,
          NoKeys}

KeysInit ==
    /\ pc = "start"
    /\ \E S \in SUBSET (1..Len(KeysPool)) :
          /\ Cardinality(S) <= MaxKeysCmds \/ S = 1..Len(KeysPool)
          /\ cmds = SubList(KeysPool, S, 1)
    /\ req \in KeysReqChoices
    /\ state0 = <<>>
    /\ order \in ClassOrders
    /\ state_keys = <<>> /\ transitions = <<>> /\ idx = 0 /\ states = <<>>
    /\ datestarts = <<>> /\ table = NoTable /\ err = "" /\ warned = {}
    /\ log = <<>>
    /\ IdleReduce /\ IdleAdd /\ IdleSPM /\ IdleState0 /\ IdleMore

SpecKeys == KeysInit /\ [][FoldNext]_vars

\* the key a PCAD rule puts into the transition of a command it matches
\* ("" for a command no PCAD rule matches)
PcadItemKey(cmd) ==
    CASE cmd.type = "MP_TARGQUAT" -> "targ_q1"
      [] cmd.tlmsid \in {"AOMANUVR", "AONSMSAF"} -> "maneuver"
      [] cmd.tlmsid \in {"AONMMODE", "AONPMODE"} -> "pcad_mode"
      [] cmd.tlmsid \in {"AONM2NPE", "AONM2NPD"} -> "auto_npnt"
      [] OTHER -> ""

\* the keys the call was asked for (none given: all)
Requested == IF req = NoKeys THEN Range(STATE_KEYS) ELSE Range(req)

\* C31: the processed state keys, and the columns of the returned table after
\* datestart and datestop, are the duplicate-free union of the state_keys of
\* every rule that declares a requested key, so every requested key that is
\* registered is among them; with one PCAD key requested they are all PCAD
\* keys and the transition list has what every PCAD rule makes of the commands
C31_cluster_keys ==
    pc # "start" =>
        LET touched == {i \in 1..Len(RuleClasses) :
                           Range(RuleClasses[i].state_keys) \cap Requested # {}}
            cols == UNION {Range(RuleClasses[i].state_keys) : i \in touched}
        IN  /\ Range(state_keys) = cols
            /\ Cardinality(Range(state_keys)) = Len(state_keys)
            /\ Requested \cap Range(STATE_KEYS) \subseteq Range(state_keys)
            /\ Requested \cap Range(PCAD_STATE_KEYS) # {} =>
                  /\ Range(PCAD_STATE_KEYS) \subseteq Range(state_keys)
                  /\ err = "" =>
                        \A j \in 1..Len(cmds) :
                            PcadItemKey(cmds[j]) # "" =>
                                \E i \in 1..Len(transitions) :
                                    /\ transitions[i].date = cmds[j].date
                                    /\ HasKey(transitions[i],
                                              PcadItemKey(cmds[j]))
            /\ pc = "returned" =>
                  /\ table.names = <<"datestart", "datestop">> \o state_keys
                  /\ \A r \in 1..Len(table.rows) :
                        DOMAIN table.rows[r] = Range(state_keys)

\* only "ra" was requested and the whole pool given: the table has the
\* fifteen PCAD columns and no other, and its last row has the mode, the
\* target and the attitude that the PCAD rules made
C31_witness ==
    /\ pc = "returned"
    /\ req = <<"ra">>
    /\ Len(cmds) = Len(KeysPool)
    /\ Len(table.names) = 2 + Len(PCAD_STATE_KEYS)
    /\ Range(PCAD_STATE_KEYS) \subseteq Range(table.names)
    /\ table.rows[Len(table.rows)]["auto_npnt"] = Str("DISA")
    /\ table.rows[Len(table.rows)]["pcad_mode"] = Str("NPNT")
    /\ table.rows[Len(table.rows)]["targ_q1"] # NoneV
    /\ table.rows[Len(table.rows)]["q1"] # NoneV


\* ---------------------------------------------------------------------------
\* The rows of the fold: the row of the date being processed is the only one
\* that changes
\* ---------------------------------------------------------------------------

\* C32: a step of the fold for a transition with a new date leaves every row
\* there was as it is and adds one row, which has the value of the row before
\* for every key the transition does not write; a step for a transition of
\* the current date changes the last row only, and in it only the keys the
\* transition writes (as plain items or in its closure)
C32_rows_frozen ==
    [][FoldStep =>
          LET m == Len(states)
              fresh == transitions[idx + 1].date # Last(datestarts)
          IN  /\ Len(states') = (IF fresh THEN m + 1 ELSE m)
              /\ datestarts' = (IF fresh
                                THEN Append(datestarts,
                                            transitions[idx + 1].date)
                                ELSE datestarts)
              /\ \A r \in 1..m : r < m \/ fresh => states'[r] = states[r]
              /\ \A k \in DOMAIN states[m] :
                    ~Writes(idx + 1, k) =>
                        states'[Len(states')][k] = states[m][k]]_vars

\* the normal-sun closure has just run at a date of its own, in a third or
\* later row: that row has pcad_mode NSUN and the target of the closure, the
\* row before still has the mode NPNT and target 3 of state0, and both have
\* the auto_npnt of state0, which the transition does not write
C32_witness ==
    /\ pc = "loop"
    /\ Len(states) >= 3
    /\ Len(log) = 1 /\ log[1].func = "NormalSunTransition"
    /\ transitions[idx].date = Last(datestarts)
    /\ idx > 1 /\ transitions[idx - 1].date # Last(datestarts)
    /\ states[Len(states)]["pcad_mode"] = Str("NSUN")
    /\ states[Len(states) - 1]["pcad_mode"] = Str("NPNT")
    /\ states[Len(states) - 1]["targ_q1"] = Num(3)
    /\ states[Len(states)]["targ_q1"] # Num(3)
    /\ states[Len(states)]["auto_npnt"] = Str("ENAB")
    /\ states[Len(states) - 1]["auto_npnt"] = Str("ENAB")


\* ---------------------------------------------------------------------------
\* The keys of the rows
\* ---------------------------------------------------------------------------

\* the keys that transitions carry for their closures, and the date
CarrierKeys == {"maneuver", "update_pitch", "date"}

\* C33: at every point of the fold each row has the processed state keys as
\* its keys, no more and no fewer, whatever the rules and the closures of
\* the call have written so far; no key that carries a closure is a state
\* key or a key of a row, and the rows of the returned table have the keys
\* of its columns
C33_row_keys ==
    /\ Range(state_keys) \cap CarrierKeys = {}
    /\ \A r \in 1..Len(states) :
          /\ DOMAIN states[r] = Range(state_keys)
          /\ \A k \in DOMAIN states[r] : ~IsDict(states[r][k])
    /\ pc = "returned" =>
          \A r \in 1..Len(table.rows) :
              DOMAIN table.rows[r] \cup {"datestart", "datestop"}
                  = Range(table.names)

\* a maneuver closure, the normal-sun closure and a sun-vector closure have
\* been called during the fold for "pitch", plain items were stored, and the
\* last step was a closure that put transitions into the list: the newest row
\* has an attitude, a mode and a pitch, and the fifteen PCAD keys only
C33_witness ==
    /\ pc = "loop"
    /\ req = <<"pitch">>
    /\ Len(states) >= 3
    /\ \E i \in 1..idx : HasKey(transitions[i], "maneuver")
    /\ \E i \in 1..idx : HasKey(transitions[i], "update_pitch")
    /\ \E i \in 1..idx : HasKey(transitions[i], "pcad_mode")
    /\ Len(log) >= 1 /\ log[1].func = "NormalSunTransition"
    /\ PutPlaces(log) # {}
    /\ states[Len(states)]["q1"] # NoneV
    /\ states[Len(states)]["pcad_mode"] = Str("NSUN")
    /\ states[Len(states)]["pitch"] # NoneV
    /\ Cardinality(DOMAIN states[Len(states)]) = Len(PCAD_STATE_KEYS)


\* ---------------------------------------------------------------------------
\* get_state0: what a longer lookback does to the values already found
\* ---------------------------------------------------------------------------

\* some rule declares both keys
Coupled(j, k) ==
    \E i \in 1..Len(RuleClasses) : {j, k} \subseteq Range(RuleClasses[i].state_keys)

\* the requested keys without a value in s0 that a rule couples with k: the
\* keys the next lookback runs the pipeline for
Unresolved(k) == {j \in Range(s0_keys(req)) \ DOMAIN s0 : Coupled(j, k)}

\* C34: a lookback of get_state0 leaves every key of state0 with the value it
\* has: the value found with the shortest lookback that resolved the key is
\* the one returned
C34_first_value_kept ==
    [][S0Lookback => \A k \in DOMAIN s0 : k \in DOMAIN s0' /\ s0'[k] = s0[k]]_vars

\* C34 as the code has it: a lookback never takes a key out of state0 and
\* changes the value of a key only by running the pipeline for a requested
\* key that is still unresolved and coupled with it: the value is then the
\* last-row value of that run on the commands of this lookback when that value
\* is not absent, and stays what it was otherwise
C34_last_run_kept ==
    [][S0Lookback /\ err' = "" =>
          \A k \in DOMAIN s0 :
              /\ k \in DOMAIN s0'
              /\ \A j \in Unresolved(k) :
                    LET g == get_states_for_cmds(cmds', <<j>>, <<>>, order, natts)
                    IN  g.err = "" /\ Last(g.table.rows)[k] # NoneV =>
                            s0'[k] = Last(g.table.rows)[k]
              /\ (\A j \in Unresolved(k) :
                     LET g == get_states_for_cmds(cmds', <<j>>, <<>>, order, natts)
                     IN  g.err # "" \/ Last(g.table.rows)[k] = NoneV)
                    => s0'[k] = s0[k]]_vars

\* pcad_mode and q1 asked for 7 days and 50 s after the maneuver command of
\* day 300: the 7-day window has the mode command alone, which gives pcad_mode
\* NMAN and no q1; the 30-day window has the maneuver too, whose end sets NPNT
\* after the mode command, and the value returned for pcad_mode is NPNT
C34_witness ==
    /\ pc = "returned"
    /\ req = <<"pcad_mode", "q1">>
    /\ s0date = 307 * DAY + 50
    /\ queried = <<7, 30>>
    /\ lookback_step(<<>>, s0date, req, 7, order, natts).state0
           = [k \in {"pcad_mode"} |-> Str("NMAN")]
    /\ s0["pcad_mode"] = Str("NPNT")
    /\ s0["q1"] = Num(4)

=============================================================================
